---- MODULE Spec2Model ----
(***************************************************************************)
(* Beside it, the launcher of the deployed agent (deploy/agent/watchdog.py) *)
(* and the hub client of the openbotclaw skill (skills/openbotclaw).       *)
(*                                                                         *)
(* The specifications share the module's variables:                        *)
(*   SpecKeys    processes racing through generate_rsa_keypair on one      *)
(*               key directory;                                            *)
(*   SpecManual  two caller threads of an EntityManager constructed with   *)
(*               auto_refresh=False, against a nondeterministic server;    *)
(*   SpecAuth    one caller that authenticates and stops, and the refresh  *)
(*               threads it starts;                                        *)
(*   SpecSweep   one caller that authenticates two entities, and the       *)
(*               refresh threads sweeping the cache;                       *)
(*   SpecLazy    one caller that authenticates and asks for the token, a   *)
(*               second one that revokes meanwhile, and the refresh        *)
(*               threads;                                                  *)
(*   SpecCreate  one caller that registers and authenticates entities;     *)
(*   SpecSetup   one caller running the agents' setup flows                *)
(*               (create_entity, then authenticate);                       *)
(*   SpecWire    one caller that authenticates and refreshes, against a    *)
(*               server that may omit fields and a network that may alter  *)
(*               wrapped answers;                                          *)
(*   SpecUnwrap  decrypt_aes_response applied to envelopes, intact or      *)
(*               altered;                                                  *)
(*   SpecOneKey  one caller that authenticates two entities, one of which  *)
(*               has no key pair;                                          *)
(*   SpecHeader  one caller that authenticates and asks for the token or   *)
(*               the Authorization header, and the refresh threads;        *)
(*   SpecPair    one caller using the session operations on two entities,  *)
(*               and the refresh threads;                                  *)
(*   SpecTwo     two EntityManagers in one process;                        *)
(*   SpecSend    one caller using every operation that sends a request;    *)
(*   Spec        two callers using every operation of the session cache,   *)
(*               and the refresh threads;                                  *)
(*   SpecStop    SpecAuth with auto_refresh on and fair refresh threads;   *)
(*   SpecRefresher  the refresh loop and one session on a clock in         *)
(*               seconds, under the default margin and sleep;              *)
(*   SpecWatchdog   the watchdog's main loop, the repository and the       *)
(*               agent process;                                            *)
(*   SpecHub     one OpenBotClawHub, its polling and reconnect threads     *)
(*               and a server that goes down and comes back.               *)
(***************************************************************************)
EXTENDS Integers, Sequences, FiniteSets, TLC

(***************************************************************************)
(* Bounds of the model.                                                    *)
(***************************************************************************)
\* generate_rsa_keypair calls started in one behaviour of SpecKeys
MaxGen == 3
\* EntityManager operations the callers start in one behaviour
MaxCalls == 3
\* the last tick of the clock
MaxTime == 1
\* session tokens the server issues in one behaviour
MaxTokens == 3

(***************************************************************************)
(* Entity identifiers are sequences of characters, so that _key_path's     *)
(* replacement of path separators is computed and not assumed: the ids     *)
(* "a/" and "a_" are different entities that share one key file.           *)
(***************************************************************************)
IdSlash == <<"a", "/">>
IdUnder == <<"a", "_">>
IdB     == <<"b">>
KeyIds  == {IdSlash, IdUnder, IdB}

Procs == {"p1", "p2"}

None == "none"

\* An octal file mode, digit by digit (0o600 is Oct(6, 0, 0)).
Oct(u, g, o) == u * 64 + g * 8 + o

RECURSIVE BitAnd(_, _)
BitAnd(a, b) ==
  IF a = 0 \/ b = 0 THEN 0
  ELSE (a % 2) * (b % 2) + 2 * BitAnd(a \div 2, b \div 2)

\* mode & ~umask, as the kernel applies the process umask on creation
ApplyUmask(mode, mask) == mode - BitAnd(mode, mask)

\* The umasks a process may run under.
Umasks == {Oct(0, 2, 2), Oct(0, 7, 7)}

VARIABLES
  umask,      \* the umask of the processes using the key directory
  keyDir,     \* the key directory: NoDir, or [present, mode]
  privFile,   \* path -> NoFile, or [content, mode] of <safe_id>.pem
  pubFile,    \* path -> NoFile, or [content, mode] of <safe_id>.pub.pem
  gen,        \* process -> the state of its generate_rsa_keypair call
  genCalls,   \* generate_rsa_keypair calls started so far
  returned,   \* history: the successful returns, [proc, call, path, key]
  written,    \* history: path -> the key material ever written to <path>.pem
  \* ---- one EntityManager and the server it talks to ----
  now,              \* the clock, in ticks
  auto_refresh,     \* EntityManager.auto_refresh, set by the constructor
  sessions,         \* EntityManager._sessions: entity_id -> session, or NoSession
  order,            \* the insertion order of the keys of _sessions
  refresh_running,  \* EntityManager._refresh_running
  refresh_thread,   \* EntityManager._refresh_thread: a thread, or None
  th,               \* thread -> its position and local variables
  calls,            \* operations started so far
  nextChallenge,    \* server: the next challenge_id it issues
  nextToken,        \* server: the next session token it issues
  submitted,        \* history: the challenge_ids sent in a signature submission
  lastWrite,        \* history: entity_id -> the session stored last
  superseded,       \* history: the tokens a later store has replaced in the cache
  \* ---- a second EntityManager of the same process ----
  other_manager,    \* the attributes and threads of the manager not in use
  \* ---- the programs around the SDK ----
  watchdog,         \* deploy/agent/watchdog.py: main's position and variables,
                    \* WORK_DIR, the repository and the agent process
  hub,              \* skills/openbotclaw: one OpenBotClawHub and its server
  \* ---- the refresh loop on a clock in seconds ----
  refresher         \* one cached session, the loop's position and the clock

\* What no operation of the key store or of an EntityManager assigns.
deployVars == <<watchdog, hub, refresher>>

\* What no operation of the manager in use assigns: the key directory and
\* the attributes of the other manager.
keyVars == <<umask, keyDir, privFile, pubFile, gen, genCalls, returned, written,
             other_manager, deployVars>>
mgrVars == <<now, auto_refresh, sessions, order, refresh_running, refresh_thread,
             th, calls, nextChallenge, nextToken, submitted, lastWrite,
             superseded, other_manager, deployVars>>
\* What no step of the watchdog, of the hub or of the timed loop assigns.
sdkVars == <<umask, keyDir, privFile, pubFile, gen, genCalls, returned, written,
             now, auto_refresh, sessions, order, refresh_running,
             refresh_thread, th, calls, nextChallenge, nextToken, submitted,
             lastWrite, superseded, other_manager>>
vars == <<keyVars, mgrVars>>

(***************************************************************************)
(* Key storage.                                                            *)
(***************************************************************************)
\* safe_id = entity_id.replace("/", "_").replace("\\", "_")
safe_id(entity_id) ==
  [i \in DOMAIN entity_id |->
     IF entity_id[i] \in {"/", "\\"} THEN "_" ELSE entity_id[i]]

\* Both files of an entity are named after safe_id; a path is identified by it.
key_path(entity_id) == safe_id(entity_id)

Paths == {key_path(id) : id \in KeyIds}

\* File contents: nothing yet (created or truncated by open(.., 'wb')), or the
\* PEM of one half of key pair k.
Empty == <<"empty", 0>>
PrivPem(k) == <<"private", k>>
PubPem(k) == <<"public", k>>

\* A path that names no file or directory.
NoFile == [content |-> <<"absent", 0>>, mode |-> 0]
NoDir == [present |-> FALSE, mode |-> 0]

\* A test that finds no file, whatever is there.
ExistsNever(file) == FALSE

\* os.path.exists
exists(file) == file # NoFile

\* os.makedirs(key_dir, mode=0o700, exist_ok=True): an existing directory is kept
ensure_key_dir(dir) ==
  IF dir.present THEN dir
  ELSE [present |-> TRUE, mode |-> ApplyUmask(Oct(7, 0, 0), umask)]

\* open(path, 'wb'): the file is created with 0o666 & ~umask, or truncated
\* keeping the mode it has
OpenWb(file) ==
  IF exists(file)
    THEN [content |-> Empty, mode |-> file.mode]
    ELSE [content |-> Empty, mode |-> ApplyUmask(Oct(6, 6, 6), umask)]

(***************************************************************************)
(* The EntityManager: data.                                                *)
(***************************************************************************)
\* The entities the manager may hold a session for; the callers of most
\* specifications use the first only. The manager's threads: the callers'
\* threads, and the threads _start_auto_refresh creates.
Entities == {IdUnder, IdB}
Main == {IdUnder}
CallerSeq == <<"t1", "t2">>
Callers == {CallerSeq[i] : i \in DOMAIN CallerSeq}
BgSeq == <<"b1", "b2">>
Bgs == {BgSeq[i] : i \in DOMAIN BgSeq}
Threads == Callers \cup Bgs

\* The lifetimes (in ticks) the server gives a session: one shorter than the
\* refresh margin, one longer.
Lifetimes == {1, 3}

\* An entry of _sessions; NoSession is what _sessions.get() gives for no entry.
NoSession == [token |-> 0, expires_at |-> 0, entity_id |-> <<>>]
Session(entity_id, data) ==
  [token |-> data.session_token, expires_at |-> data.expires_at,
   entity_id |-> entity_id]

\* The body of a session or refresh response: {session_token, expires_at}.
NoData == [session_token |-> 0, expires_at |-> 0, lacks |-> {}]

\* The AES-256-GCM envelope of a wrapped response, symbolically: the AES key
\* RSA-OAEP encrypted for a public key, the IV, the ciphertext of a JSON
\* object under that key and IV, and the GCM tag over the ciphertext.
Seal(aes, iv, obj) == [aes |-> aes, iv |-> iv, obj |-> obj]
GcmTag(aes, iv, ciphertext) == [aes |-> aes, iv |-> iv, over |-> ciphertext]
Wrap(obj, aes, iv, pub) ==
  [encryptedKey |-> [forKey |-> pub, aes |-> aes], iv |-> iv,
   encryptedData |-> Seal(aes, iv, obj),
   authTag |-> GcmTag(aes, iv, Seal(aes, iv, obj))]
\* A response that is not wrapped has none of the four envelope fields.
NoEnv == <<>>

\* An HTTP response as the client sees it. status 0 is no response at all
\* (timeout, connection failure: requests raises). A challenge response
\* carries challenge_id and the nonce encrypted for a key; a session response
\* carries the body in the clear or (encrypted) wrapped for a key.
NoResp == [status |-> 0, challenge_id |-> 0, nonce |-> 0, forKey |-> 0,
           encrypted |-> FALSE, body |-> NoData,
           success |-> FALSE, error |-> <<>>, record |-> 0,
           env |-> NoEnv, lacks |-> {}]

\* The request a call has sent last: the endpoint, and the challenge_id and
\* signature (the signing key, the signed message) or the bearer token.
NoReq == [endpoint |-> "none", challenge_id |-> 0, signer |-> 0,
          signed |-> <<>>, bearer |-> 0, public_key |-> <<"absent", 0>>]

\* What a finished call gave its caller: a value (kind "returned") or an
\* exception (kind "raised"). token is the token returned (0 for None),
\* live whether the session it belongs to had expires_at > now at the
\* return, flag the boolean revoke_session returns, bgAlive the refresh
\* threads alive when stop returned, msg the text of a RuntimeError of
\* create_entity (a sequence of words), record the id in the record
\* create_entity returns.
NoRet == [kind |-> "none", exc |-> "none", token |-> 0, live |-> FALSE,
          flag |-> FALSE, bgAlive |-> {}, msg |-> <<>>, record |-> 0,
          header |-> <<>>]
Returned(token, live) == [NoRet EXCEPT !.kind = "returned", !.token = token,
                                       !.live = live]
\* A revoke_session that always answers True.
ReturnedTrue(flag) == [NoRet EXCEPT !.kind = "returned", !.flag = TRUE]

ReturnedFlag(flag) == [NoRet EXCEPT !.kind = "returned", !.flag = flag]
Raised(exc) == [NoRet EXCEPT !.kind = "raised", !.exc = exc]

\* A thread: pc is its place in the code, wait whether it is blocked in an
\* HTTP request it has sent; the rest are the local variables of the methods
\* it is in. got is the exchanges (request and response) the call has had,
\* asked the entities it has sent a refresh request for (a loop thread: in
\* this sweep), swept the entities a loop thread has examined in this sweep.
IdleThread ==
  [pc |-> "idle", op |-> "none", ent |-> <<>>, ctx |-> "none", wait |-> FALSE,
   key |-> 0, resp |-> NoResp, req |-> NoReq, data |-> NoData,
   ids |-> <<>>, swept |-> <<>>, asked |-> <<>>, target |-> None,
   got |-> <<>>, ret |-> NoRet]

Unstarted == [IdleThread EXCEPT !.pc = "unstarted"]

\* A constructor that hands every manager the cache of the manager in use
\* (a cache kept in a class attribute).
NewManagerShared(ar) ==
  [made |-> TRUE, auto_refresh |-> ar, sessions |-> sessions, order |-> order,
   refresh_running |-> FALSE, refresh_thread |-> None,
   th |-> [t \in Threads |-> IF t \in Callers THEN IdleThread ELSE Unstarted],
   lastWrite |-> [e \in Entities |-> NoSession], superseded |-> {}]

\* lines 343-357: the attributes __init__ gives a manager constructed with
\* auto_refresh = ar, and the threads that will use it
NewManager(ar) ==
  [made |-> TRUE, auto_refresh |-> ar,
   sessions |-> [e \in Entities |-> NoSession], order |-> <<>>,
   refresh_running |-> FALSE, refresh_thread |-> None,
   th |-> [t \in Threads |-> IF t \in Callers THEN IdleThread ELSE Unstarted],
   lastWrite |-> [e \in Entities |-> NoSession], superseded |-> {}]

\* No second manager has been constructed.
NoManager == [made |-> FALSE]

\* The attributes and threads of the manager in use.
ThisManager ==
  [made |-> TRUE, auto_refresh |-> auto_refresh, sessions |-> sessions,
   order |-> order, refresh_running |-> refresh_running,
   refresh_thread |-> refresh_thread, th |-> th, lastWrite |-> lastWrite,
   superseded |-> superseded]

\* No watchdog and no hub run beside the SDK.
NoWatchdog == [made |-> FALSE]
NoHub == [made |-> FALSE]
\* The refresh loop is not followed second by second.
NoRefresher == [made |-> FALSE]

\* lines 343-357: a new manager has no sessions and no refresh thread
InitSessions ==
  /\ now = 0
  /\ sessions = [e \in Entities |-> NoSession]
  /\ order = <<>>
  /\ refresh_running = FALSE
  /\ refresh_thread = None
  /\ calls = 0
  /\ nextChallenge = 1
  /\ nextToken = 1
  /\ submitted = {}
  /\ lastWrite = [e \in Entities |-> NoSession]
  /\ superseded = {}
  /\ other_manager = NoManager

InitCache ==
  /\ InitSessions
  /\ watchdog = NoWatchdog
  /\ hub = NoHub
  /\ refresher = NoRefresher

InitMgr ==
  /\ InitCache
  /\ th = [t \in Threads |-> IF t \in Callers THEN IdleThread ELSE Unstarted]

IdleGen == [pc |-> "idle", id |-> IdB, key |-> 0, call |-> 0,
            existed |-> FALSE, result |-> None]

InitKeys ==
  /\ umask \in Umasks
  /\ keyDir = NoDir
  /\ privFile = [p \in Paths |-> NoFile]
  /\ pubFile = [p \in Paths |-> NoFile]
  /\ gen = [p \in Procs |-> IdleGen]
  /\ genCalls = 0
  /\ returned = {}
  /\ written = [p \in Paths |-> {}]
  /\ auto_refresh = FALSE
  /\ InitMgr

(***************************************************************************)
(* generate_rsa_keypair, one action per statement that touches the disk.   *)
(***************************************************************************)
\* lines 102-103: the call starts, _ensure_key_dir and _key_path
GenStart(p, id) ==
  /\ gen[p].pc = "idle"
  /\ genCalls < MaxGen
  /\ genCalls' = genCalls + 1
  /\ keyDir' = ensure_key_dir(keyDir)
  /\ gen' = [gen EXCEPT ![p] =
       [pc |-> "check", id |-> id, key |-> 0, call |-> genCalls + 1,
        existed |-> exists(privFile[key_path(id)]), result |-> None]]
  /\ UNCHANGED <<umask, privFile, pubFile, returned, written>>
  /\ UNCHANGED mgrVars

\* A check that looks for the public key file instead of the private one.
KeysExistPublicOnly(p) == exists(pubFile[key_path(gen[p].id)])

\* line 106: os.path.exists(private_path)
KeysExist(p) == exists(privFile[key_path(gen[p].id)])

\* lines 105-131: refuse to overwrite, else generate a fresh key pair
GenCheck(p) ==
  /\ gen[p].pc = "check"
  /\ IF KeysExist(p)
       THEN gen' = [gen EXCEPT ![p].pc = "idle",
                               ![p].result = "FileExistsError"]
       ELSE gen' = [gen EXCEPT ![p].pc = "open_private",
                               ![p].key = gen[p].call]
  /\ UNCHANGED <<umask, keyDir, privFile, pubFile, genCalls, returned, written>>
  /\ UNCHANGED mgrVars

\* line 134: with open(private_path, 'wb') as f
GenOpenPrivate(p) ==
  /\ gen[p].pc = "open_private"
  /\ privFile' = [privFile EXCEPT ![key_path(gen[p].id)] = OpenWb(@)]
  /\ gen' = [gen EXCEPT ![p].pc = "write_private"]
  /\ UNCHANGED <<umask, keyDir, pubFile, genCalls, returned, written>>
  /\ UNCHANGED mgrVars

\* line 135: f.write(private_pem), flushed when the with block closes the file
GenWritePrivate(p) ==
  LET path == key_path(gen[p].id) IN
  /\ gen[p].pc = "write_private"
  /\ privFile' = [privFile EXCEPT ![path].content = PrivPem(gen[p].key)]
  /\ written' = [written EXCEPT ![path] = @ \cup {gen[p].key}]
  /\ gen' = [gen EXCEPT ![p].pc = "chmod_private"]
  /\ UNCHANGED <<umask, keyDir, pubFile, genCalls, returned>>
  /\ UNCHANGED mgrVars

\* line 136: os.chmod(private_path, 0o600)
GenChmodPrivate(p) ==
  /\ gen[p].pc = "chmod_private"
  /\ privFile' = [privFile EXCEPT ![key_path(gen[p].id)].mode = Oct(6, 0, 0)]
  /\ gen' = [gen EXCEPT ![p].pc = "open_public"]
  /\ UNCHANGED <<umask, keyDir, pubFile, genCalls, returned, written>>
  /\ UNCHANGED mgrVars

\* line 139: with open(public_path, 'wb') as f
GenOpenPublic(p) ==
  /\ gen[p].pc = "open_public"
  /\ pubFile' = [pubFile EXCEPT ![key_path(gen[p].id)] = OpenWb(@)]
  /\ gen' = [gen EXCEPT ![p].pc = "write_public"]
  /\ UNCHANGED <<umask, keyDir, privFile, genCalls, returned, written>>
  /\ UNCHANGED mgrVars

\* line 140: f.write(public_pem)
GenWritePublic(p) ==
  /\ gen[p].pc = "write_public"
  /\ pubFile' = [pubFile EXCEPT ![key_path(gen[p].id)].content = PubPem(gen[p].key)]
  /\ gen' = [gen EXCEPT ![p].pc = "chmod_public"]
  /\ UNCHANGED <<umask, keyDir, privFile, genCalls, returned, written>>
  /\ UNCHANGED mgrVars

\* line 141: os.chmod(public_path, 0o644)
GenChmodPublic(p) ==
  /\ gen[p].pc = "chmod_public"
  /\ pubFile' = [pubFile EXCEPT ![key_path(gen[p].id)].mode = Oct(6, 4, 4)]
  /\ gen' = [gen EXCEPT ![p].pc = "return"]
  /\ UNCHANGED <<umask, keyDir, privFile, genCalls, returned, written>>
  /\ UNCHANGED mgrVars

\* line 143: return private_path, public_pem
GenReturn(p) ==
  /\ gen[p].pc = "return"
  /\ gen' = [gen EXCEPT ![p].pc = "idle", ![p].result = "ok"]
  /\ returned' = returned \cup
       {[proc |-> p, call |-> gen[p].call, path |-> key_path(gen[p].id),
         key |-> gen[p].key]}
  /\ UNCHANGED <<umask, keyDir, privFile, pubFile, genCalls, written>>
  /\ UNCHANGED mgrVars

NextKeys ==
  \/ \E p \in Procs, id \in KeyIds : GenStart(p, id)
  \/ \E p \in Procs : GenCheck(p)
  \/ \E p \in Procs : GenOpenPrivate(p)
  \/ \E p \in Procs : GenWritePrivate(p)
  \/ \E p \in Procs : GenChmodPrivate(p)
  \/ \E p \in Procs : GenOpenPublic(p)
  \/ \E p \in Procs : GenWritePublic(p)
  \/ \E p \in Procs : GenChmodPublic(p)
  \/ \E p \in Procs : GenReturn(p)

SpecKeys == InitKeys /\ [][NextKeys]_vars


(***************************************************************************)
(* The EntityManager: helpers.                                             *)
(***************************************************************************)
\* HTTP 200, the one status the client accepts, and the statuses a server
\* refuses a request with.
StatusOk == 200
Refusals == {401, 500}

\* refresh_margin_seconds, in ticks
refresh_margin_seconds == 2

\* A key no local key file holds (the server may have another public key on
\* record than the one on disk).
ForeignKey == 0

\* load_private_key's result for an existing, fully written key file
KeyOf(file) == file.content[2]
IsPrivatePem(file) == file.content[1] = "private"

\* decrypted.hex(): the nonce as a hex string
Hex(n) == <<"hex", n>>

\* A decryption that yields a value whatever the key.
CanDecryptAny(key, resp) == TRUE

\* RSA-OAEP decryption succeeds only with the private key the data was
\* encrypted for
CanDecrypt(key, resp) == resp.forKey = key

\* decrypt_challenge: the nonce, as a hex string
decrypt_challenge(key, resp) == Hex(resp.nonce)

\* sign_challenge: the signature of a message under a private key
sign_challenge(key, msg) == [signer |-> key, msg |-> msg]

\* What a decryption gives: the plaintext, or the exception raised.
Plain(data) == [ok |-> TRUE, exc |-> "none", data |-> data]
Fails(exc) == [ok |-> FALSE, exc |-> exc, data |-> NoData]

\* An unwrap that does not verify the GCM tag.
decrypt_aes_unverified(key, env) ==
  IF env.encryptedKey.forKey # key THEN Fails("ValueError")
  ELSE Plain(env.encryptedData.obj)

\* decrypt_aes_response, lines 281-301: RSA-OAEP decrypt the AES key (fails
\* for another key than the one it was encrypted for); AES-GCM decrypt
\* ciphertext + tag under that key and the IV (fails with InvalidTag unless the
\* tag is the one of this key, IV and ciphertext); json.loads the plaintext
decrypt_aes_response(key, env) ==
  IF env.encryptedKey.forKey # key THEN Fails("ValueError")
  ELSE LET aes_key == env.encryptedKey.aes IN
       IF env.authTag # GcmTag(aes_key, env.iv, env.encryptedData)
         THEN Fails("InvalidTag")
         ELSE Plain(env.encryptedData.obj)

\* A client that stores what it finds, whether or not a field is missing.
CompleteAlways(data) == TRUE

\* session_data['session_token'], session_data['expires_at'] (lines 486-487,
\* 575-576): a missing key raises KeyError
Complete(data) == data.lacks \cap {"session_token", "expires_at"} = {}

\* A client that accepts every answer it gets.
IsOkOrRefused(resp) == resp.status # 0

\* response.status_code != 200 is refused
IsOk(resp) == resp.status = StatusOk

\* The thread record with a request sent and the thread blocked in it.
Sent(r, req) == [r EXCEPT !.req = req, !.wait = TRUE]

\* A call returns or raises: its locals are gone; what it was and its result
\* are kept.
Done(r, ret) == [IdleThread EXCEPT !.op = r.op, !.ent = r.ent, !.ret = ret]

\* The keys of _sessions after an entry for e is stored or removed: a dict
\* keeps insertion order, and storing under an existing key keeps its place.
Without(seq, e) == SelectSeq(seq, LAMBDA x : x # e)
\* A cache that adds an entry at every store.
WithKeyAgain(seq, e) == Append(seq, e)

WithKey(seq, e) == IF \E i \in DOMAIN seq : seq[i] = e THEN seq ELSE Append(seq, e)

\* A store that replaces the token and leaves the rest of the entry.
StoreSessionTorn(e, data) ==
  [sessions EXCEPT ![e].token = data.session_token, ![e].entity_id = e]

\* self._sessions[entity_id] = {token, expires_at, entity_id}
StoreSession(e, data) == [sessions EXCEPT ![e] = Session(e, data)]

CacheStore(e, data) ==
  /\ sessions' = StoreSession(e, data)
  /\ order' = WithKey(order, e)
  /\ lastWrite' = [lastWrite EXCEPT ![e] = Session(e, data)]
  /\ superseded' = superseded \cup
       (IF sessions[e] = NoSession THEN {} ELSE {sessions[e].token})

\* A pop that removes nothing.
PopSessionKeeps(e) == sessions

\* A pop that empties the cache.
PopSessionClears(e) == [x \in Entities |-> NoSession]

\* self._sessions.pop(entity_id, None)
PopSession(e) == [sessions EXCEPT ![e] = NoSession]

CacheRemove(e) ==
  /\ sessions' = PopSession(e)
  /\ order' = Without(order, e)
  /\ UNCHANGED <<lastWrite, superseded>>

CacheSame == UNCHANGED <<sessions, order, lastWrite, superseded>>
ServerSame == UNCHANGED <<nextChallenge, nextToken>>
LoopSame == UNCHANGED <<refresh_running, refresh_thread>>

\* A caller starts an operation. The callers are interchangeable: a caller
\* starts one only while the callers before it are in a call.
CanCall(t) ==
  /\ th[t].pc = "idle"
  /\ calls < MaxCalls
  /\ \E i \in DOMAIN CallerSeq :
       /\ CallerSeq[i] = t
       /\ \A j \in 1..(i - 1) : th[CallerSeq[j]].pc # "idle"

(***************************************************************************)
(* The server, seen from the client: it answers a request in flight with   *)
(* a status and a body of its choice, or the request fails.                *)
(***************************************************************************)
InFlight(t, endpoint) == th[t].wait /\ th[t].req.endpoint = endpoint

Answer(t, resp) ==
  th' = [th EXCEPT ![t].wait = FALSE, ![t].resp = resp,
                   ![t].got = Append(@, [req |-> th[t].req, resp |-> resp])]

\* POST /auth/challenge -> 200 {challenge_id, encrypted_challenge} | error
ChallengeEndpoint(t) ==
  /\ InFlight(t, "/auth/challenge")
  /\ \/ /\ \E k \in {th[t].key, ForeignKey} :
             Answer(t, [NoResp EXCEPT !.status = StatusOk,
                                      !.challenge_id = nextChallenge,
                                      !.nonce = nextChallenge, !.forKey = k])
        /\ nextChallenge' = nextChallenge + 1
        /\ UNCHANGED nextToken
     \/ /\ \E status \in Refusals : Answer(t, [NoResp EXCEPT !.status = status])
        /\ ServerSame
  /\ CacheSame /\ LoopSame
  /\ UNCHANGED <<now, auto_refresh, calls, submitted, keyVars>>

\* A new session body: a fresh token, expiring a lifetime from now.
NewSessions ==
  {[session_token |-> nextToken, expires_at |-> now + life, lacks |-> {}] :
     life \in Lifetimes}

\* POST /auth/session -> 200 {session_token, expires_at}, in the clear or
\* wrapped (encrypted: true) | error
SessionEndpoint(t) ==
  /\ InFlight(t, "/auth/session")
  /\ \/ /\ nextToken <= MaxTokens
        /\ \E body \in NewSessions, enc \in BOOLEAN, k \in {th[t].key, ForeignKey} :
             /\ enc \/ k = th[t].key
             /\ Answer(t, IF enc
                   THEN [NoResp EXCEPT !.status = StatusOk, !.encrypted = TRUE,
                                       !.env = Wrap(body, 1, 1, k)]
                   ELSE [NoResp EXCEPT !.status = StatusOk, !.body = body])
        /\ nextToken' = nextToken + 1
        /\ UNCHANGED nextChallenge
     \/ /\ \E status \in Refusals : Answer(t, [NoResp EXCEPT !.status = status])
        /\ ServerSame
  /\ CacheSame /\ LoopSame
  /\ UNCHANGED <<now, auto_refresh, calls, submitted, keyVars>>

\* POST /auth/refresh -> 200 {session_token, expires_at} | error
RefreshEndpoint(t) ==
  /\ InFlight(t, "/auth/refresh")
  /\ \/ /\ nextToken <= MaxTokens
        /\ \E body \in NewSessions :
             Answer(t, [NoResp EXCEPT !.status = StatusOk, !.body = body])
        /\ nextToken' = nextToken + 1
        /\ UNCHANGED nextChallenge
     \/ /\ \E status \in Refusals : Answer(t, [NoResp EXCEPT !.status = status])
        /\ ServerSame
  /\ CacheSame /\ LoopSame
  /\ UNCHANGED <<now, auto_refresh, calls, submitted, keyVars>>

\* A 200 answer that lacks one of the fields the client reads: challenge_id
\* or encrypted_challenge of a challenge, session_token or expires_at of a
\* session (in the body, or in the object that is wrapped).
MalformedAnswer(t) ==
  /\ th[t].wait
  /\ \/ /\ th[t].req.endpoint = "/auth/challenge"
        /\ \E f \in {"challenge_id", "encrypted_challenge"} :
             Answer(t, [NoResp EXCEPT !.status = StatusOk,
                                      !.challenge_id = nextChallenge,
                                      !.nonce = nextChallenge,
                                      !.forKey = th[t].key, !.lacks = {f}])
     \/ /\ th[t].req.endpoint = "/auth/session"
        /\ \E body \in NewSessions, f \in {"session_token", "expires_at"},
              enc \in BOOLEAN :
             LET obj == [body EXCEPT !.lacks = {f}] IN
             Answer(t, IF enc
               THEN [NoResp EXCEPT !.status = StatusOk, !.encrypted = TRUE,
                                   !.env = Wrap(obj, 1, 1, th[t].key)]
               ELSE [NoResp EXCEPT !.status = StatusOk, !.body = obj])
     \/ /\ th[t].req.endpoint = "/auth/refresh"
        /\ \E body \in NewSessions, f \in {"session_token", "expires_at"} :
             Answer(t, [NoResp EXCEPT !.status = StatusOk,
                                      !.body = [body EXCEPT !.lacks = {f}]])
  /\ ServerSame /\ CacheSame /\ LoopSame
  /\ UNCHANGED <<now, auto_refresh, calls, submitted, keyVars>>

\* An envelope altered on the way: a change of the ciphertext changes the
\* object it decrypts to, a changed tag is the tag of something else, a
\* changed IV is another IV.
Flip(obj) == [obj EXCEPT !.expires_at = @ + 1]
Tampers(env) ==
  LET other == Seal(env.encryptedData.aes, env.encryptedData.iv,
                    Flip(env.encryptedData.obj))
  IN {[env EXCEPT !.encryptedData = other],
      [env EXCEPT !.authTag = GcmTag(@.aes, @.iv, other)],
      [env EXCEPT !.iv = @ + 1]}

\* A wrapped session response that was altered on the way.
TamperedAnswer(t) ==
  /\ InFlight(t, "/auth/session")
  /\ \E body \in NewSessions : \E env \in Tampers(Wrap(body, 1, 1, th[t].key)) :
       Answer(t, [NoResp EXCEPT !.status = StatusOk, !.encrypted = TRUE,
                                !.env = env])
  /\ ServerSame /\ CacheSame /\ LoopSame
  /\ UNCHANGED <<now, auto_refresh, calls, submitted, keyVars>>

\* DELETE /auth/session -> the response is ignored
DeleteEndpoint(t) ==
  /\ InFlight(t, "DELETE /auth/session")
  /\ \E status \in {StatusOk} \cup Refusals :
       Answer(t, [NoResp EXCEPT !.status = status])
  /\ ServerSame /\ CacheSame /\ LoopSame
  /\ UNCHANGED <<now, auto_refresh, calls, submitted, keyVars>>

\* The request times out or the connection fails: requests raises.
NetworkFailure(t) ==
  /\ th[t].wait
  /\ Answer(t, NoResp)
  /\ ServerSame /\ CacheSame /\ LoopSame
  /\ UNCHANGED <<now, auto_refresh, calls, submitted, keyVars>>

(***************************************************************************)
(* EntityManager.authenticate. The statements between two accesses to the  *)
(* manager's shared state or the network use only the call's locals, and   *)
(* are one action.                                                         *)
(***************************************************************************)
\* lines 433-441: load_private_key, then POST /auth/challenge
\* An authenticate that asks for a challenge whether or not it has a key.
AuthBeginAnyway(r) ==
  Sent([r EXCEPT !.pc = "auth_challenge",
                 !.key = KeyOf(privFile[key_path(r.ent)])],
       [NoReq EXCEPT !.endpoint = "/auth/challenge"])

AuthBegin(r) ==
  LET file == privFile[key_path(r.ent)] IN
  IF ~exists(file) THEN Done(r, Raised("FileNotFoundError"))
  ELSE IF ~IsPrivatePem(file) THEN Done(r, Raised("ValueError"))
  ELSE Sent([r EXCEPT !.pc = "auth_challenge", !.key = KeyOf(file)],
            [NoReq EXCEPT !.endpoint = "/auth/challenge"])

AuthStart(t, e) ==
  /\ CanCall(t)
  /\ calls' = calls + 1
  /\ th' = [th EXCEPT ![t] =
       AuthBegin([IdleThread EXCEPT !.op = "authenticate", !.ent = e])]
  /\ ServerSame /\ CacheSame /\ LoopSame
  /\ UNCHANGED <<now, auto_refresh, submitted, keyVars>>

\* The exception a failed request or a refused response ends the call with.
Failure(resp) ==
  IF resp.status = 0 THEN Raised("RequestException") ELSE Raised("RuntimeError")

\* A submission with another challenge_id than the one received.
SubmissionOther(key, resp) ==
  LET decrypted_challenge == decrypt_challenge(key, resp)
      signature == sign_challenge(key, decrypted_challenge)
  IN [NoReq EXCEPT !.endpoint = "/auth/session",
                   !.challenge_id = resp.challenge_id + 1,
                   !.signer = signature.signer, !.signed = signature.msg]

\* lines 457-465: the signature submission, for the challenge just received:
\* its challenge_id (line 447), and the signature (line 454) of the decrypted
\* challenge (line 451)
Submission(key, resp) ==
  LET decrypted_challenge == decrypt_challenge(key, resp)
      signature == sign_challenge(key, decrypted_challenge)
  IN [NoReq EXCEPT !.endpoint = "/auth/session",
                   !.challenge_id = resp.challenge_id,
                   !.signer = signature.signer, !.signed = signature.msg]

\* lines 443-465: a refused challenge request raises; else decrypt the
\* challenge, sign it and POST /auth/session
AuthChallengeResponse(t) ==
  /\ th[t].pc = "auth_challenge" /\ ~th[t].wait
  /\ IF ~IsOk(th[t].resp)
       THEN /\ th' = [th EXCEPT ![t] = Done(@, Failure(th[t].resp))]
            /\ UNCHANGED submitted
       ELSE IF th[t].resp.lacks # {}
         THEN /\ th' = [th EXCEPT ![t] = Done(@, Raised("KeyError"))]
              /\ UNCHANGED submitted
       ELSE IF ~CanDecrypt(th[t].key, th[t].resp)
         THEN /\ th' = [th EXCEPT ![t] = Done(@, Raised("ValueError"))]
              /\ UNCHANGED submitted
         ELSE /\ th' = [th EXCEPT ![t] =
                   Sent([@ EXCEPT !.pc = "auth_session"],
                        Submission(th[t].key, th[t].resp))]
              /\ submitted' = submitted \cup
                   {Submission(th[t].key, th[t].resp).challenge_id}
  /\ ServerSame /\ CacheSame /\ LoopSame
  /\ UNCHANGED <<now, auto_refresh, calls, keyVars>>

\* lines 472-482: session_data is the unwrapped payload when the response is
\* flagged encrypted, else the body itself
\* An authenticate that takes the session from the JSON body whatever the flag.
SessionDataOfBody(key, resp) == Plain(resp.body)

\* lines 470-481: session_data is the unwrapped object if result.get
\* ('encrypted') is true, and result itself otherwise
SessionData(key, resp) ==
  IF resp.encrypted THEN decrypt_aes_response(key, resp.env) ELSE Plain(resp.body)

\* An authenticate that never starts the refresh loop.
ShouldStartRefreshNever == FALSE

\* line 495: if self.auto_refresh and not self._refresh_running
ShouldStartRefresh == auto_refresh /\ ~refresh_running

\* What authenticate returns: session_data
AuthResult(data) == Returned(data.session_token, data.expires_at > now)

\* lines 467-495: a refused submission raises; else unwrap the response and
\* store the session under _session_lock; with auto_refresh off the call
\* then returns (line 495 reads no shared state)
AuthSessionResponse(t) ==
  LET session_data == SessionData(th[t].key, th[t].resp)
      data == session_data.data
  IN
  /\ th[t].pc = "auth_session" /\ ~th[t].wait
  /\ IF ~IsOk(th[t].resp)
       THEN /\ th' = [th EXCEPT ![t] = Done(@, Failure(th[t].resp))]
            /\ CacheSame
       ELSE IF ~session_data.ok
         THEN /\ th' = [th EXCEPT ![t] = Done(@, Raised(session_data.exc))]
              /\ CacheSame
       ELSE IF ~Complete(data)
         THEN /\ th' = [th EXCEPT ![t] = Done(@, Raised("KeyError"))]
              /\ CacheSame
         ELSE /\ CacheStore(th[t].ent, data)
              /\ th' = [th EXCEPT ![t] =
                   IF auto_refresh
                     THEN [@ EXCEPT !.pc = "auth_check_running", !.data = data,
                                    !.resp = NoResp, !.req = NoReq, !.got = <<>>]
                     ELSE [Done(@, AuthResult(data)) EXCEPT !.got = th[t].got]]
  /\ ServerSame /\ LoopSame
  /\ UNCHANGED <<now, auto_refresh, calls, submitted, keyVars>>

\* line 495: test _refresh_running; the call returns when the loop runs
AuthCheckRunning(t) ==
  /\ th[t].pc = "auth_check_running"
  /\ th' = [th EXCEPT ![t] =
       IF ShouldStartRefresh
         THEN [@ EXCEPT !.pc = "auth_start_refresh"]
         ELSE Done(@, AuthResult(th[t].data))]
  /\ ServerSame /\ CacheSame /\ LoopSame
  /\ UNCHANGED <<now, auto_refresh, calls, submitted, keyVars>>

\* lines 496-498 and 606-614: _start_auto_refresh sets _refresh_running, and
\* creates and starts a thread running _refresh_loop; then the call returns
AuthStartRefresh(t) ==
  /\ th[t].pc = "auth_start_refresh"
  /\ \E i \in DOMAIN BgSeq :
       LET b == BgSeq[i] IN
       /\ th[b].pc = "unstarted"
       /\ \A j \in 1..(i - 1) : th[BgSeq[j]].pc # "unstarted"
       /\ refresh_running' = TRUE
       /\ refresh_thread' = b
       /\ th' = [th EXCEPT ![t] = Done(@, AuthResult(th[t].data)),
                           ![b] = [IdleThread EXCEPT !.pc = "loop_test",
                                                     !.op = "_refresh_loop"]]
  /\ ServerSame /\ CacheSame
  /\ UNCHANGED <<now, auto_refresh, calls, submitted, keyVars>>

(***************************************************************************)
(* EntityManager.refresh_session, called directly, by get_session_token    *)
(* (ctx "gst") and by _refresh_loop (ctx "loop").                          *)
(***************************************************************************)
\* time.sleep(300), when the sweep of _refresh_loop is over (line 642)
SweepOn(r) ==
  IF r.ids = <<>> THEN [r EXCEPT !.pc = "sleep"] ELSE [r EXCEPT !.pc = "loop_next"]

\* A loop in which a failed refresh_session ends the sweep.
RefreshEndsSweep(r, ret) ==
  LET back == [r EXCEPT !.resp = NoResp, !.req = NoReq, !.got = <<>>] IN
  CASE r.ctx = "gst" -> [back EXCEPT !.pc = "gst_return", !.ret = ret]
    [] r.ctx = "loop" ->
         IF ret.kind = "raised" THEN [back EXCEPT !.pc = "sleep"] ELSE SweepOn(back)
    [] OTHER -> Done(r, ret)

\* How refresh_session ends for the thread record r: a direct call returns or
\* raises to the caller; get_session_token (lines 527-530) and the loop (lines
\* 638-639) catch the exception and go on. In get_session_token ret keeps
\* what refresh_session returned or raised.
RefreshEnds(r, ret) ==
  LET back == [r EXCEPT !.resp = NoResp, !.req = NoReq, !.got = <<>>] IN
  CASE r.ctx = "gst" -> [back EXCEPT !.pc = "gst_return", !.ret = ret]
    [] r.ctx = "loop" -> SweepOn(back)
    [] OTHER -> Done(r, ret)

\* A refresh_session that sends its request whether or not a session is cached.
RefreshReadBlind(r) ==
  Sent([r EXCEPT !.pc = "refresh_response", !.asked = Append(@, r.ent)],
       [NoReq EXCEPT !.endpoint = "/auth/refresh",
                     !.bearer = sessions[r.ent].token])

\* lines 557-567: read the cached session, then POST /auth/refresh with its
\* token as the bearer
RefreshRead(r) ==
  LET session == sessions[r.ent] IN
  IF session = NoSession
    THEN RefreshEnds(r, Raised("RuntimeError"))
    ELSE Sent([r EXCEPT !.pc = "refresh_response", !.asked = Append(@, r.ent)],
              [NoReq EXCEPT !.endpoint = "/auth/refresh",
                            !.bearer = session.token])

RefreshStart(t, e) ==
  /\ CanCall(t)
  /\ calls' = calls + 1
  /\ th' = [th EXCEPT ![t] =
       RefreshRead([IdleThread EXCEPT !.op = "refresh_session", !.ent = e,
                                      !.ctx = "direct"])]
  /\ ServerSame /\ CacheSame /\ LoopSame
  /\ UNCHANGED <<now, auto_refresh, submitted, keyVars>>

RefreshNested(t) ==
  /\ th[t].pc = "refresh_read"
  /\ th' = [th EXCEPT ![t] = RefreshRead(@)]
  /\ ServerSame /\ CacheSame /\ LoopSame
  /\ UNCHANGED <<now, auto_refresh, calls, submitted, keyVars>>

\* lines 569-582: a refused refresh raises; an accepted one replaces the
\* cached session, under _session_lock
RefreshResponse(t) ==
  /\ th[t].pc = "refresh_response" /\ ~th[t].wait
  /\ IF ~IsOk(th[t].resp)
       THEN /\ CacheSame
            /\ th' = [th EXCEPT ![t] = RefreshEnds(@, Failure(th[t].resp))]
       ELSE IF ~Complete(th[t].resp.body)
         THEN /\ CacheSame
              /\ th' = [th EXCEPT ![t] = RefreshEnds(@, Raised("KeyError"))]
         ELSE /\ CacheStore(th[t].ent, th[t].resp.body)
              /\ th' = [th EXCEPT ![t] =
                   RefreshEnds(@, AuthResult(th[t].resp.body))]
  /\ ServerSame /\ LoopSame
  /\ UNCHANGED <<now, auto_refresh, calls, submitted, keyVars>>

(***************************************************************************)
(* EntityManager.get_session_token                                         *)
(***************************************************************************)
\* lines 515-517: (expires_at - now).total_seconds()
seconds_remaining(session) == session.expires_at - now

\* line 519: the token has expired
Expired(session) == seconds_remaining(session) <= 0

\* A get_session_token that refreshes whether or not auto_refresh is on.
AboutToExpireAnyway(session) ==
  seconds_remaining(session) < refresh_margin_seconds

\* line 525: the token is about to expire and is to be refreshed
AboutToExpire(session) ==
  seconds_remaining(session) < refresh_margin_seconds /\ auto_refresh

\* A get_auth_header that gives the header whatever the token is.
AuthHeaderAlways(ret) ==
  [ret EXCEPT !.header = <<"Authorization", "Bearer", ret.token>>]

\* lines 542-545: {"Authorization": "Bearer <token>"} if the token is
\* truthy, and {} otherwise; an exception of get_session_token passes through
AuthHeader(ret) ==
  IF ret.kind = "returned" /\ ret.token # 0
    THEN [ret EXCEPT !.header = <<"Authorization", "Bearer", ret.token>>]
    ELSE ret

\* The end of get_session_token, called directly or by get_auth_header.
GstDone(r, ret) ==
  Done(r, IF r.op = "get_auth_header" THEN AuthHeader(ret) ELSE ret)

\* lines 507-525: read the cached session and decide
GstBegin(t, e, op) ==
  LET session == sessions[e]
      r == [IdleThread EXCEPT !.op = op, !.ent = e, !.ctx = "gst"]
  IN
  /\ CanCall(t)
  /\ calls' = calls + 1
  /\ th' = [th EXCEPT ![t] =
       IF session = NoSession THEN GstDone(r, Returned(0, FALSE))
       ELSE IF Expired(session) THEN [r EXCEPT !.pc = "gst_evict"]
       ELSE IF AboutToExpire(session) THEN [r EXCEPT !.pc = "refresh_read"]
       ELSE [r EXCEPT !.pc = "gst_return"]]
  /\ ServerSame /\ CacheSame /\ LoopSame
  /\ UNCHANGED <<now, auto_refresh, submitted, keyVars>>

GstStart(t, e) == GstBegin(t, e, "get_session_token")

\* line 542: token = self.get_session_token(entity_id)
HeaderStart(t, e) == GstBegin(t, e, "get_auth_header")

\* lines 521-523: del self._sessions[entity_id], under _session_lock; del
\* raises KeyError when the entry is gone
GstEvict(t) ==
  /\ th[t].pc = "gst_evict"
  /\ IF sessions[th[t].ent] = NoSession
       THEN /\ CacheSame
            /\ th' = [th EXCEPT ![t] = GstDone(@, Raised("KeyError"))]
       ELSE /\ CacheRemove(th[t].ent)
            /\ th' = [th EXCEPT ![t] = GstDone(@, Returned(0, FALSE))]
  /\ ServerSame /\ LoopSame
  /\ UNCHANGED <<now, auto_refresh, calls, submitted, keyVars>>

\* lines 532-533: return self._sessions.get(entity_id, {}).get('token')
GstReturn(t) ==
  LET session == sessions[th[t].ent] IN
  /\ th[t].pc = "gst_return"
  /\ th' = [th EXCEPT ![t] =
       GstDone(@, Returned(session.token, session.expires_at > now))]
  /\ ServerSame /\ CacheSame /\ LoopSame
  /\ UNCHANGED <<now, auto_refresh, calls, submitted, keyVars>>

(***************************************************************************)
(* EntityManager.revoke_session                                            *)
(***************************************************************************)
\* lines 586-597: no session: return False; else DELETE /auth/session
RevokeStart(t, e) ==
  LET session == sessions[e]
      r == [IdleThread EXCEPT !.op = "revoke_session", !.ent = e]
  IN
  /\ CanCall(t)
  /\ calls' = calls + 1
  /\ th' = [th EXCEPT ![t] =
       IF session = NoSession
         THEN Done(r, ReturnedFlag(FALSE))
         ELSE Sent([r EXCEPT !.pc = "revoke_response"],
                   [NoReq EXCEPT !.endpoint = "DELETE /auth/session",
                                 !.bearer = session.token])]
  /\ ServerSame /\ CacheSame /\ LoopSame
  /\ UNCHANGED <<now, auto_refresh, submitted, keyVars>>

\* lines 598-604: whatever the request did (an exception is passed over),
\* self._sessions.pop(entity_id, None) and return True
RevokeFinish(t) ==
  /\ th[t].pc = "revoke_response" /\ ~th[t].wait
  /\ CacheRemove(th[t].ent)
  /\ th' = [th EXCEPT ![t] = Done(@, ReturnedFlag(TRUE))]
  /\ ServerSame /\ LoopSame
  /\ UNCHANGED <<now, auto_refresh, calls, submitted, keyVars>>

(***************************************************************************)
(* EntityManager.create_entity, and the agents' setup flows that call it   *)
(* and go on to authenticate. A text is a sequence of words.               *)
(***************************************************************************)
StatusCreated == 201
StatusConflict == 409

\* The answers of POST /entity/create: the statuses, and the texts of the
\* 'error' field (<<>> when the body has none).
CreateStatuses == {StatusCreated, StatusConflict, StatusOk, 400}
ErrorTexts ==
  {<<>>, <<"Entity", "already", "exists">>, <<"Entity", "ID", "taken">>,
   <<"Invalid", "name">>}
RecordIds == {1, 2}

\* str.lower(), word by word
LowerWord(w) ==
  CASE w = "Already" -> "already"
    [] w = "Entity" -> "entity"
    [] w = "ID" -> "id"
    [] w = "Invalid" -> "invalid"
    [] w = "Unknown" -> "unknown"
    [] OTHER -> w
lower(text) == [i \in DOMAIN text |-> LowerWord(text[i])]

\* pat in text
Contains(text, pat) ==
  \E i \in 1..(Len(text) - Len(pat) + 1) : SubSeq(text, i, i + Len(pat) - 1) = pat

\* A create_entity that looks at the success flag only.
IsCreatedByFlag(resp) == resp.success

\* line 405: response.status_code == 201 and result.get('success')
IsCreated(resp) == resp.status = StatusCreated /\ resp.success

\* lines 410-413: RuntimeError(f"Entity creation failed: {result.get('error',
\* 'Already exists')}") on 409, with the default 'Unknown error' otherwise
CreateError(resp) ==
  LET default == IF resp.status = StatusConflict
                   THEN <<"Already", "exists">> ELSE <<"Unknown", "error">>
  IN
  [Raised("RuntimeError") EXCEPT
     !.msg = <<"Entity", "creation", "failed:">>
               \o (IF resp.error = <<>> THEN default ELSE resp.error)]

\* lines 392-413: what create_entity gives its caller for a response; a
\* request that failed raises in self.http.post
CreateOutcome(resp) ==
  IF resp.status = 0 THEN Raised("RequestException")
  ELSE IF IsCreated(resp)
    THEN [NoRet EXCEPT !.kind = "returned", !.record = resp.record]
    ELSE CreateError(resp)

\* example_entity_agent.py line 133, openbot_ai_agent.py line 356:
\* "already exists" in str(e).lower()
SaysAlreadyExists(ret) == Contains(lower(ret.msg), <<"already", "exists">>)

\* lines 382-401: generate_rsa_keypair, or load the public key when the
\* private key file exists; then POST /entity/create. ctx is the caller:
\* "direct", or "setup" for SocialAgent.setup.
\* A loader that reads the private key file instead.
load_private_key_pem(path) == privFile[path].content

\* lines 181-189: the text of <safe_id>.pub.pem
load_public_key_pem(path) == pubFile[path].content

CreateBegin(t, e, ctx) ==
  LET path == key_path(e)
      k == genCalls + 1
      r == [IdleThread EXCEPT !.op = "create_entity", !.ent = e, !.ctx = ctx]
      post(pem) == Sent([r EXCEPT !.pc = "create_response", !.key = pem[2]],
                        [NoReq EXCEPT !.endpoint = "/entity/create",
                                      !.public_key = pem])
  IN
  /\ CanCall(t)
  /\ calls' = calls + 1
  /\ keyDir' = ensure_key_dir(keyDir)
  /\ IF exists(privFile[path])
       THEN /\ UNCHANGED <<privFile, pubFile, genCalls, written>>
            /\ th' = [th EXCEPT ![t] =
                 IF exists(pubFile[path])
                   THEN post(load_public_key_pem(path))
                   ELSE Done(r, Raised("FileNotFoundError"))]
       ELSE /\ privFile' = [privFile EXCEPT ![path] =
                 [content |-> PrivPem(k), mode |-> Oct(6, 0, 0)]]
            /\ pubFile' = [pubFile EXCEPT ![path] =
                 [content |-> PubPem(k), mode |-> Oct(6, 4, 4)]]
            /\ written' = [written EXCEPT ![path] = @ \cup {k}]
            /\ genCalls' = genCalls + 1
            /\ th' = [th EXCEPT ![t] = post(PubPem(k))]
  /\ ServerSame /\ CacheSame /\ LoopSame
  /\ UNCHANGED <<now, auto_refresh, submitted, umask, gen, returned,
                 other_manager, deployVars>>

\* EntityManager.create_entity(entity_id, display_name)
CreateStart(t, e) == CreateBegin(t, e, "direct")

\* SocialAgent.setup, lines 127-130: create_entity(self.entity_id,
\* self.display_name, entity_type="lobster")
SetupStart(t, e) == CreateBegin(t, e, "setup")

\* AIAgent.create, lines 353-355: create_entity(entity_id,
\* entity_type="lobster") lacks the required display_name: TypeError, which
\* the except RuntimeError clause does not catch
AgentCreate(t, e) ==
  /\ CanCall(t)
  /\ calls' = calls + 1
  /\ th' = [th EXCEPT ![t] =
       Done([IdleThread EXCEPT !.op = "create_entity", !.ent = e],
            Raised("TypeError"))]
  /\ ServerSame /\ CacheSame /\ LoopSame
  /\ UNCHANGED <<now, auto_refresh, submitted, keyVars>>

\* POST /entity/create -> a status, and a body with or without the success
\* flag, an error text and the record's id
CreateEndpoint(t) ==
  /\ InFlight(t, "/entity/create")
  /\ \E status \in CreateStatuses, success \in BOOLEAN, error \in ErrorTexts,
        id \in RecordIds :
       Answer(t, [NoResp EXCEPT !.status = status, !.success = success,
                                !.error = error, !.record = id])
  /\ ServerSame /\ CacheSame /\ LoopSame
  /\ UNCHANGED <<now, auto_refresh, calls, submitted, keyVars>>

\* lines 403-413, and in SocialAgent.setup lines 131-140: the record or a
\* RuntimeError that says "already exists" takes setup on to authenticate;
\* any other exception leaves setup
CreateResponse(t) ==
  LET out == CreateOutcome(th[t].resp)
      goesOn == \/ out.kind = "returned"
                \/ out.exc = "RuntimeError" /\ SaysAlreadyExists(out)
  IN
  /\ th[t].pc = "create_response" /\ ~th[t].wait
  /\ th' = [th EXCEPT ![t] =
       IF th[t].ctx = "setup" /\ goesOn
         THEN AuthBegin([IdleThread EXCEPT !.op = "authenticate",
                                           !.ent = th[t].ent, !.ctx = "setup"])
         ELSE Done(@, out)]
  /\ ServerSame /\ CacheSame /\ LoopSame
  /\ UNCHANGED <<now, auto_refresh, calls, submitted, keyVars>>

(***************************************************************************)
(* EntityManager.stop and the threads running _refresh_loop                *)
(***************************************************************************)
Alive(b) == th[b].pc \notin {"unstarted", "dead"}

\* A thread blocked in a request, in time.sleep or in join.
Blocked(t) == th[t].wait \/ th[t].pc \in {"sleep", "stop_join"}

\* line 648: self._refresh_running = False
StopStart(t) ==
  /\ CanCall(t)
  /\ calls' = calls + 1
  /\ refresh_running' = FALSE
  /\ th' = [th EXCEPT ![t] = [IdleThread EXCEPT !.op = "stop", !.pc = "stop_read"]]
  /\ ServerSame /\ CacheSame
  /\ UNCHANGED <<now, auto_refresh, refresh_thread, submitted, keyVars>>

\* What stop returns (None); bgAlive records the refresh threads then alive.
StopResult == [NoRet EXCEPT !.kind = "returned", !.bgAlive = {b \in Bgs : Alive(b)}]

\* lines 649-650: if self._refresh_thread: join it
StopRead(t) ==
  /\ th[t].pc = "stop_read"
  /\ th' = [th EXCEPT ![t] =
       IF refresh_thread = None
         THEN Done(@, StopResult)
         ELSE [@ EXCEPT !.pc = "stop_join", !.target = refresh_thread]]
  /\ ServerSame /\ CacheSame /\ LoopSame
  /\ UNCHANGED <<now, auto_refresh, calls, submitted, keyVars>>

\* join(timeout=5) returns when the thread has ended, or after five seconds
\* while the thread is still blocked in its sleep (300 s) or in a request
\* (timeout 10 s)
JoinReturns(target) == ~Alive(target) \/ Blocked(target)

\* line 650: self._refresh_thread.join(timeout=5), then stop returns
StopJoin(t) ==
  /\ th[t].pc = "stop_join"
  /\ JoinReturns(th[t].target)
  /\ th' = [th EXCEPT ![t] = Done(@, StopResult)]
  /\ ServerSame /\ CacheSame /\ LoopSame
  /\ UNCHANGED <<now, auto_refresh, calls, submitted, keyVars>>

\* A loop that goes on whatever the flag says.
LoopEntersAnyway(r) ==
  SweepOn([r EXCEPT !.ids = order, !.swept = <<>>, !.asked = <<>>])

\* lines 618-621: while self._refresh_running: entity_ids = list(keys), under
\* the lock; the thread ends when the flag is off
LoopEnters(r) ==
  IF refresh_running
    THEN SweepOn([r EXCEPT !.ids = order, !.swept = <<>>, !.asked = <<>>])
    ELSE [IdleThread EXCEPT !.pc = "dead", !.op = "_refresh_loop"]

LoopTest(b) ==
  /\ th[b].pc = "loop_test"
  /\ th' = [th EXCEPT ![b] = LoopEnters(@)]
  /\ ServerSame /\ CacheSame /\ LoopSame
  /\ UNCHANGED <<now, auto_refresh, calls, submitted, keyVars>>

\* A sweep that also refreshes sessions that have expired.
SweepRefreshesExpired(session) ==
  seconds_remaining(session) < refresh_margin_seconds

\* line 636: the session is refreshed when it is about to expire and has not
\* expired yet
SweepRefreshes(session) ==
  seconds_remaining(session) < refresh_margin_seconds
    /\ seconds_remaining(session) > 0

\* lines 623-637: the next entity of the sweep
LoopNext(b) ==
  LET e == Head(th[b].ids)
      session == sessions[e]
      rest == [th[b] EXCEPT !.ids = Tail(@), !.swept = Append(@, e)]
  IN
  /\ th[b].pc = "loop_next"
  /\ th' = [th EXCEPT ![b] =
       IF session # NoSession /\ SweepRefreshes(session)
         THEN [rest EXCEPT !.pc = "refresh_read", !.ent = e, !.ctx = "loop"]
         ELSE SweepOn(rest)]
  /\ ServerSame /\ CacheSame /\ LoopSame
  /\ UNCHANGED <<now, auto_refresh, calls, submitted, keyVars>>

\* line 642: time.sleep(300) returns, and the loop tests its flag again
LoopWake(b) ==
  /\ th[b].pc = "sleep"
  /\ th' = [th EXCEPT ![b] = LoopEnters(@)]
  /\ ServerSame /\ CacheSame /\ LoopSame
  /\ UNCHANGED <<now, auto_refresh, calls, submitted, keyVars>>

(***************************************************************************)
(* Time. The statements between two blocking calls take no time: the clock *)
(* advances only while every thread is blocked, between calls or ended.    *)
(***************************************************************************)
Quiet(t) == Blocked(t) \/ th[t].pc \in {"idle", "unstarted", "dead"}

Tick ==
  /\ now < MaxTime
  /\ \A t \in Threads : Quiet(t)
  /\ now' = now + 1
  /\ ServerSame /\ CacheSame /\ LoopSame
  /\ UNCHANGED <<auto_refresh, th, calls, submitted, keyVars>>

(***************************************************************************)
(* The manager's specification: a key directory in which each entity has   *)
(* a complete key pair or none, and a newly constructed EntityManager.     *)
(***************************************************************************)
KeyNumber(path) == IF path = key_path(IdB) THEN 1 ELSE 2

\* The key directory when the entities of have own a key pair.
DiskWith(have) ==
  /\ umask = Oct(0, 2, 2)
  /\ keyDir = [present |-> TRUE, mode |-> Oct(7, 0, 0)]
  /\ privFile = [p \in Paths |->
       IF p \in {key_path(e) : e \in have}
         THEN [content |-> PrivPem(KeyNumber(p)), mode |-> Oct(6, 0, 0)]
         ELSE NoFile]
  /\ pubFile = [p \in Paths |->
       IF p \in {key_path(e) : e \in have}
         THEN [content |-> PubPem(KeyNumber(p)), mode |-> Oct(6, 4, 4)]
         ELSE NoFile]
  /\ gen = [p \in Procs |-> IdleGen]
  /\ genCalls = 0
  /\ returned = {}
  /\ written = [p \in Paths |-> {}]

InitDisk == \E have \in {Entities, {}} : DiskWith(have)

Init ==
  /\ InitDisk
  /\ auto_refresh \in BOOLEAN
  /\ InitMgr

Next ==
  \/ \E t \in Callers, e \in Main : AuthStart(t, e)
  \/ \E t \in Callers : AuthChallengeResponse(t)
  \/ \E t \in Callers : AuthSessionResponse(t)
  \/ \E t \in Callers : AuthCheckRunning(t)
  \/ \E t \in Callers : AuthStartRefresh(t)
  \/ \E t \in Callers, e \in Main : GstStart(t, e)
  \/ \E t \in Callers : GstEvict(t)
  \/ \E t \in Callers : GstReturn(t)
  \/ \E t \in Callers, e \in Main : RefreshStart(t, e)
  \/ \E t \in Threads : RefreshNested(t)
  \/ \E t \in Threads : RefreshResponse(t)
  \/ \E t \in Callers, e \in Main : RevokeStart(t, e)
  \/ \E t \in Callers : RevokeFinish(t)
  \/ \E t \in Callers : StopStart(t)
  \/ \E t \in Callers : StopRead(t)
  \/ \E t \in Callers : StopJoin(t)
  \/ \E b \in Bgs : LoopTest(b)
  \/ \E b \in Bgs : LoopNext(b)
  \/ \E b \in Bgs : LoopWake(b)
  \/ \E t \in Threads : ChallengeEndpoint(t)
  \/ \E t \in Threads : SessionEndpoint(t)
  \/ \E t \in Threads : RefreshEndpoint(t)
  \/ \E t \in Threads : DeleteEndpoint(t)
  \/ \E t \in Threads : NetworkFailure(t)
  \/ Tick

Spec == Init /\ [][Next]_vars

\* A manager constructed with auto_refresh=False: no refresh thread is ever
\* started, and get_session_token never refreshes.
InitManual == Init /\ auto_refresh = FALSE

NextManual ==
  \/ \E t \in Callers, e \in Main : AuthStart(t, e)
  \/ \E t \in Callers : AuthChallengeResponse(t)
  \/ \E t \in Callers : AuthSessionResponse(t)
  \/ \E t \in Callers, e \in Main : GstStart(t, e)
  \/ \E t \in Callers : GstEvict(t)
  \/ \E t \in Callers : GstReturn(t)
  \/ \E t \in Callers, e \in Main : RefreshStart(t, e)
  \/ \E t \in Callers : RefreshResponse(t)
  \/ \E t \in Callers, e \in Main : RevokeStart(t, e)
  \/ \E t \in Callers : RevokeFinish(t)
  \/ \E t \in Callers : StopStart(t)
  \/ \E t \in Callers : StopRead(t)
  \/ \E t \in Callers : ChallengeEndpoint(t)
  \/ \E t \in Callers : SessionEndpoint(t)
  \/ \E t \in Callers : RefreshEndpoint(t)
  \/ \E t \in Callers : DeleteEndpoint(t)
  \/ \E t \in Callers : NetworkFailure(t)
  \/ Tick

SpecManual == InitManual /\ [][NextManual]_vars

\* One caller, which authenticates and stops, and the refresh threads it starts.
Solo == {CallerSeq[1]}
NextAuth ==
  \/ \E t \in Solo, e \in Main : AuthStart(t, e)
  \/ \E t \in Solo : AuthChallengeResponse(t)
  \/ \E t \in Solo : AuthSessionResponse(t)
  \/ \E t \in Solo : AuthCheckRunning(t)
  \/ \E t \in Solo : AuthStartRefresh(t)
  \/ \E t \in Solo : StopStart(t)
  \/ \E t \in Solo : StopRead(t)
  \/ \E t \in Solo : StopJoin(t)
  \/ \E b \in Bgs : RefreshNested(b)
  \/ \E b \in Bgs : RefreshResponse(b)
  \/ \E b \in Bgs : LoopTest(b)
  \/ \E b \in Bgs : LoopNext(b)
  \/ \E b \in Bgs : LoopWake(b)
  \/ \E t \in Solo : ChallengeEndpoint(t)
  \/ \E t \in Solo : SessionEndpoint(t)
  \/ \E b \in Bgs : RefreshEndpoint(b)
  \/ \E t \in Solo \cup Bgs : NetworkFailure(t)
  \/ Tick

SpecAuth == Init /\ [][NextAuth]_vars

\* One caller, which authenticates and asks for the token, a second one that
\* revokes the session while the first is in get_session_token, and the
\* refresh threads.
Other == {CallerSeq[2]}
RevokeDuringGst(t, e) ==
  /\ \E u \in Solo : th[u].ctx = "gst"
  /\ RevokeStart(t, e)

NextLazy ==
  \/ \E t \in Solo, e \in Main : AuthStart(t, e)
  \/ \E t \in Solo : AuthChallengeResponse(t)
  \/ \E t \in Solo : AuthSessionResponse(t)
  \/ \E t \in Solo : AuthCheckRunning(t)
  \/ \E t \in Solo : AuthStartRefresh(t)
  \/ \E t \in Solo, e \in Main : GstStart(t, e)
  \/ \E t \in Solo : GstEvict(t)
  \/ \E t \in Solo : GstReturn(t)
  \/ \E t \in Other, e \in Main : RevokeDuringGst(t, e)
  \/ \E t \in Other : RevokeFinish(t)
  \/ \E t \in Solo \cup Bgs : RefreshNested(t)
  \/ \E t \in Solo \cup Bgs : RefreshResponse(t)
  \/ \E b \in Bgs : LoopTest(b)
  \/ \E b \in Bgs : LoopNext(b)
  \/ \E b \in Bgs : LoopWake(b)
  \/ \E t \in Solo : ChallengeEndpoint(t)
  \/ \E t \in Solo : SessionEndpoint(t)
  \/ \E t \in Solo \cup Bgs : RefreshEndpoint(t)
  \/ \E t \in Other : DeleteEndpoint(t)
  \/ \E t \in Callers \cup Bgs : NetworkFailure(t)
  \/ Tick

SpecLazy == Init /\ [][NextLazy]_vars

\* One caller, which registers entities, directly or in an agent's setup
\* flow, and the refresh threads the flow's authenticate starts.
NextSetup ==
  \/ \E t \in Solo, e \in Main : CreateStart(t, e)
  \/ \E t \in Solo, e \in Main : SetupStart(t, e)
  \/ \E t \in Solo, e \in Main : AgentCreate(t, e)
  \/ \E t \in Solo : CreateResponse(t)
  \/ \E t \in Solo : AuthChallengeResponse(t)
  \/ \E t \in Solo : AuthSessionResponse(t)
  \/ \E t \in Solo : AuthCheckRunning(t)
  \/ \E t \in Solo : AuthStartRefresh(t)
  \/ \E b \in Bgs : RefreshNested(b)
  \/ \E b \in Bgs : RefreshResponse(b)
  \/ \E b \in Bgs : LoopTest(b)
  \/ \E b \in Bgs : LoopNext(b)
  \/ \E b \in Bgs : LoopWake(b)
  \/ \E t \in Solo : CreateEndpoint(t)
  \/ \E t \in Solo : ChallengeEndpoint(t)
  \/ \E t \in Solo : SessionEndpoint(t)
  \/ \E b \in Bgs : RefreshEndpoint(b)
  \/ \E t \in Solo \cup Bgs : NetworkFailure(t)
  \/ Tick

SpecSetup == Init /\ [][NextSetup]_vars

\* One caller, which registers and authenticates entities, on a manager
\* with auto_refresh off.
NextCreate ==
  \/ \E t \in Solo, e \in Main : CreateStart(t, e)
  \/ \E t \in Solo : CreateResponse(t)
  \/ \E t \in Solo, e \in Main : AuthStart(t, e)
  \/ \E t \in Solo : AuthChallengeResponse(t)
  \/ \E t \in Solo : AuthSessionResponse(t)
  \/ \E t \in Solo : CreateEndpoint(t)
  \/ \E t \in Solo : ChallengeEndpoint(t)
  \/ \E t \in Solo : SessionEndpoint(t)
  \/ \E t \in Solo : NetworkFailure(t)
  \/ Tick

SpecCreate == InitManual /\ [][NextCreate]_vars

\* One caller, which authenticates and refreshes on a manager with
\* auto_refresh off, and a server or network that may also send 200 answers
\* with a field missing and wrapped answers that were altered.
NextWire ==
  \/ \E t \in Solo, e \in Main : AuthStart(t, e)
  \/ \E t \in Solo : AuthChallengeResponse(t)
  \/ \E t \in Solo : AuthSessionResponse(t)
  \/ \E t \in Solo, e \in Main : RefreshStart(t, e)
  \/ \E t \in Solo : RefreshResponse(t)
  \/ \E t \in Solo : ChallengeEndpoint(t)
  \/ \E t \in Solo : SessionEndpoint(t)
  \/ \E t \in Solo : RefreshEndpoint(t)
  \/ \E t \in Solo : MalformedAnswer(t)
  \/ \E t \in Solo : TamperedAnswer(t)
  \/ \E t \in Solo : NetworkFailure(t)
  \/ Tick

SpecWire == InitManual /\ [][NextWire]_vars

\* One caller, which authenticates and asks for the token or for the
\* Authorization header, and the refresh threads.
NextHeader ==
  \/ \E t \in Solo, e \in Main : AuthStart(t, e)
  \/ \E t \in Solo : AuthChallengeResponse(t)
  \/ \E t \in Solo : AuthSessionResponse(t)
  \/ \E t \in Solo : AuthCheckRunning(t)
  \/ \E t \in Solo : AuthStartRefresh(t)
  \/ \E t \in Solo, e \in Main : GstStart(t, e)
  \/ \E t \in Solo, e \in Main : HeaderStart(t, e)
  \/ \E t \in Solo : GstEvict(t)
  \/ \E t \in Solo : GstReturn(t)
  \/ \E t \in Solo \cup Bgs : RefreshNested(t)
  \/ \E t \in Solo \cup Bgs : RefreshResponse(t)
  \/ \E b \in Bgs : LoopTest(b)
  \/ \E b \in Bgs : LoopNext(b)
  \/ \E b \in Bgs : LoopWake(b)
  \/ \E t \in Solo : ChallengeEndpoint(t)
  \/ \E t \in Solo : SessionEndpoint(t)
  \/ \E t \in Solo \cup Bgs : RefreshEndpoint(t)
  \/ \E t \in Solo \cup Bgs : NetworkFailure(t)
  \/ Tick

SpecHeader == Init /\ [][NextHeader]_vars

\* One caller and the refresh threads, on a manager with auto_refresh on.
\* The caller authenticates each entity until a session is stored for it,
\* asks for the token of one entity's session, and refreshes and revokes the
\* other's; the clock advances once.
FirstAuth(t, e) == lastWrite[e] = NoSession /\ AuthStart(t, e)
TickOnce == now = 0 /\ Tick

NextPair ==
  \/ \E t \in Solo, e \in Entities : FirstAuth(t, e)
  \/ \E t \in Solo : AuthChallengeResponse(t)
  \/ \E t \in Solo : AuthSessionResponse(t)
  \/ \E t \in Solo : AuthCheckRunning(t)
  \/ \E t \in Solo : AuthStartRefresh(t)
  \/ \E t \in Solo, e \in Main : sessions[e] # NoSession /\ GstStart(t, e)
  \/ \E t \in Solo : GstEvict(t)
  \/ \E t \in Solo : GstReturn(t)
  \/ \E t \in Solo, e \in Entities \ Main :
       sessions[e] # NoSession /\ RefreshStart(t, e)
  \/ \E t \in Solo, e \in Entities \ Main :
       sessions[e] # NoSession /\ RevokeStart(t, e)
  \/ \E t \in Solo : RevokeFinish(t)
  \/ \E t \in Solo \cup Bgs : RefreshNested(t)
  \/ \E t \in Solo \cup Bgs : RefreshResponse(t)
  \/ \E b \in Bgs : LoopTest(b)
  \/ \E b \in Bgs : LoopNext(b)
  \/ \E b \in Bgs : LoopWake(b)
  \/ \E t \in Solo : ChallengeEndpoint(t)
  \/ \E t \in Solo : SessionEndpoint(t)
  \/ \E t \in Solo \cup Bgs : RefreshEndpoint(t)
  \/ \E t \in Solo : DeleteEndpoint(t)
  \/ \E t \in Solo \cup Bgs : NetworkFailure(t)
  \/ TickOnce

InitPair == Init /\ auto_refresh = TRUE
SpecPair == InitPair /\ [][NextPair]_vars

\* EntityManager(...) is called a second time in the process, between two
\* calls, and the program goes on with the new manager: the first one is set
\* aside as it is. The clock, the server and the key directory are the same
\* for both.
ConstructOther(ar) ==
  /\ ~other_manager.made
  /\ \A t \in Callers : th[t].pc = "idle"
  /\ other_manager' = ThisManager
  /\ auto_refresh' = NewManager(ar).auto_refresh
  /\ sessions' = NewManager(ar).sessions
  /\ order' = NewManager(ar).order
  /\ refresh_running' = NewManager(ar).refresh_running
  /\ refresh_thread' = NewManager(ar).refresh_thread
  /\ th' = NewManager(ar).th
  /\ lastWrite' = NewManager(ar).lastWrite
  /\ superseded' = NewManager(ar).superseded
  /\ ServerSame
  /\ UNCHANGED <<now, calls, submitted>>
  /\ UNCHANGED <<umask, keyDir, privFile, pubFile, gen, genCalls, returned,
                 written, deployVars>>

\* The program turns from one manager to the other, between two calls.
Switch ==
  /\ other_manager.made
  /\ \A t \in Callers : th[t].pc = "idle"
  /\ other_manager' = ThisManager
  /\ auto_refresh' = other_manager.auto_refresh
  /\ sessions' = other_manager.sessions
  /\ order' = other_manager.order
  /\ refresh_running' = other_manager.refresh_running
  /\ refresh_thread' = other_manager.refresh_thread
  /\ th' = other_manager.th
  /\ lastWrite' = other_manager.lastWrite
  /\ superseded' = other_manager.superseded
  /\ ServerSame
  /\ UNCHANGED <<now, calls, submitted>>
  /\ UNCHANGED <<umask, keyDir, privFile, pubFile, gen, genCalls, returned,
                 written, deployVars>>

\* Two managers in one process, the first with auto_refresh off and the
\* second with auto_refresh on, each with one caller, which authenticates
\* and asks for the token, and its refresh threads. The threads of a manager
\* run while it is the one in use; the clock stands still.
NextTwo ==
  \/ \E ar \in {TRUE} : ConstructOther(ar)
  \/ Switch
  \/ \E t \in Solo, e \in Main : AuthStart(t, e)
  \/ \E t \in Solo : AuthChallengeResponse(t)
  \/ \E t \in Solo : AuthSessionResponse(t)
  \/ \E t \in Solo : AuthCheckRunning(t)
  \/ \E t \in Solo : AuthStartRefresh(t)
  \/ \E t \in Solo, e \in Main : GstStart(t, e)
  \/ \E t \in Solo : GstReturn(t)
  \/ \E t \in Solo \cup Bgs : RefreshNested(t)
  \/ \E t \in Solo \cup Bgs : RefreshResponse(t)
  \/ \E b \in Bgs : LoopTest(b)
  \/ \E b \in Bgs : LoopNext(b)
  \/ \E b \in Bgs : LoopWake(b)
  \/ \E t \in Solo : ChallengeEndpoint(t)
  \/ \E t \in Solo : SessionEndpoint(t)
  \/ \E t \in Solo \cup Bgs : RefreshEndpoint(t)
  \/ \E t \in Solo \cup Bgs : NetworkFailure(t)

SpecTwo == InitManual /\ [][NextTwo]_vars

\* One caller, which uses every operation that sends a request, on a
\* manager with auto_refresh off.
NextSend ==
  \/ \E t \in Solo, e \in Main : CreateStart(t, e)
  \/ \E t \in Solo : CreateResponse(t)
  \/ \E t \in Solo, e \in Main : AuthStart(t, e)
  \/ \E t \in Solo : AuthChallengeResponse(t)
  \/ \E t \in Solo : AuthSessionResponse(t)
  \/ \E t \in Solo, e \in Main : RefreshStart(t, e)
  \/ \E t \in Solo : RefreshResponse(t)
  \/ \E t \in Solo, e \in Main : RevokeStart(t, e)
  \/ \E t \in Solo : RevokeFinish(t)
  \/ \E t \in Solo : CreateEndpoint(t)
  \/ \E t \in Solo : ChallengeEndpoint(t)
  \/ \E t \in Solo : SessionEndpoint(t)
  \/ \E t \in Solo : RefreshEndpoint(t)
  \/ \E t \in Solo : DeleteEndpoint(t)
  \/ \E t \in Solo : NetworkFailure(t)
  \/ Tick

SpecSend == InitManual /\ [][NextSend]_vars

\* One caller authenticates either entity on a manager with auto_refresh
\* off, when only one of the two entities has a key pair in the directory.
InitOneKey ==
  /\ DiskWith(Main)
  /\ auto_refresh = FALSE
  /\ InitMgr

NextOneKey ==
  \/ \E t \in Solo, e \in Entities : AuthStart(t, e)
  \/ \E t \in Solo : AuthChallengeResponse(t)
  \/ \E t \in Solo : AuthSessionResponse(t)
  \/ \E t \in Solo : ChallengeEndpoint(t)
  \/ \E t \in Solo : SessionEndpoint(t)
  \/ \E t \in Solo : NetworkFailure(t)
  \/ Tick

SpecOneKey == InitOneKey /\ [][NextOneKey]_vars

\* decrypt_aes_response as a function of its arguments: a caller holds a
\* private key and an envelope, which is what the sender sealed (kept in
\* got) or that with the ciphertext, the tag or the IV altered, and applies
\* the function. The sender sealed a JSON object under an AES key and an IV
\* of its choice and encrypted the AES key for the public key of an entity.
AesKeys == {1, 2}
Ivs == {1, 2}
JsonObjects ==
  {[session_token |-> tok, expires_at |-> x, lacks |-> {}] :
     tok \in 1..MaxTokens, x \in Lifetimes}
KeyNumbers == {KeyNumber(key_path(e)) : e \in Entities}

InitUnwrap ==
  /\ InitDisk
  /\ auto_refresh = FALSE
  /\ InitCache
  /\ \E obj \in JsonObjects, aes \in AesKeys, iv \in Ivs, pub \in KeyNumbers,
        key \in KeyNumbers :
       LET sealed == Wrap(obj, aes, iv, pub) IN
       \E env \in {sealed} \cup Tampers(sealed) :
         th = [t \in Threads |->
           IF t \in Solo
             THEN [IdleThread EXCEPT
                     !.pc = "unwrap", !.op = "decrypt_aes_response",
                     !.key = key,
                     !.resp = [NoResp EXCEPT !.encrypted = TRUE, !.env = env],
                     !.got = <<[req |-> NoReq,
                               resp |-> [NoResp EXCEPT !.encrypted = TRUE,
                                                       !.env = sealed]]>>]
             ELSE IF t \in Callers THEN IdleThread ELSE Unstarted]

\* lines 260-301: the call returns the object or raises
Unwrap(t) ==
  /\ th[t].pc = "unwrap"
  /\ LET result == decrypt_aes_response(th[t].key, th[t].resp.env) IN
     th' = [th EXCEPT ![t] =
       [@ EXCEPT !.pc = "unwrapped", !.data = result.data,
                 !.ret = IF result.ok THEN [NoRet EXCEPT !.kind = "returned"]
                                      ELSE Raised(result.exc)]]
  /\ ServerSame /\ CacheSame /\ LoopSame
  /\ UNCHANGED <<now, auto_refresh, calls, submitted, keyVars>>

NextUnwrap == \E t \in Solo : Unwrap(t)

SpecUnwrap == InitUnwrap /\ [][NextUnwrap]_vars

\* One caller, which authenticates every entity, and the refresh thread
\* sweeping the cache.
NextSweep ==
  \/ \E t \in Solo, e \in Entities : AuthStart(t, e)
  \/ \E t \in Solo : AuthChallengeResponse(t)
  \/ \E t \in Solo : AuthSessionResponse(t)
  \/ \E t \in Solo : AuthCheckRunning(t)
  \/ \E t \in Solo : AuthStartRefresh(t)
  \/ \E b \in Bgs : RefreshNested(b)
  \/ \E b \in Bgs : RefreshResponse(b)
  \/ \E b \in Bgs : LoopTest(b)
  \/ \E b \in Bgs : LoopNext(b)
  \/ \E b \in Bgs : LoopWake(b)
  \/ \E t \in Solo : ChallengeEndpoint(t)
  \/ \E t \in Solo : SessionEndpoint(t)
  \/ \E b \in Bgs : RefreshEndpoint(b)
  \/ \E b \in Bgs : NetworkFailure(b)
  \/ Tick

InitSweep == Init /\ auto_refresh = TRUE
SpecSweep == InitSweep /\ [][NextSweep]_vars

\* What a refresh thread does next, and what ends its waiting: the request
\* (timeout=10) is answered or fails, and time.sleep returns.
LoopSteps(b) ==
  \/ RefreshNested(b)
  \/ RefreshResponse(b)
  \/ LoopTest(b)
  \/ LoopNext(b)
  \/ LoopWake(b)
  \/ RefreshEndpoint(b)
  \/ NetworkFailure(b)

\* The caller and threads of SpecAuth on a manager with auto_refresh on, every
\* started thread (daemon=True, scheduled by the interpreter) going on as
\* long as it has a step to take.
SpecStop ==
  /\ InitSweep
  /\ [][NextAuth]_vars
  /\ \A b \in Bgs : WF_vars(LoopSteps(b))

(***************************************************************************)
(* deploy/agent/watchdog.py: the launcher that downloads the tracked       *)
(* scripts into a staging directory, validates them, copies them into      *)
(* WORK_DIR and restarts the agent. A file's content is a name: "bad" is a *)
(* script py_compile rejects, the others compile.                          *)
(***************************************************************************)
\* staging directories main creates in one behaviour
MaxChecks == 3

ENTRY_SCRIPT == "openbot_ai_agent.py"
TRACKED_FILES == <<ENTRY_SCRIPT, "openbot_client.py", "openbot_entity.py">>
Tracked == {TRACKED_FILES[i] : i \in DOMAIN TRACKED_FILES}
Contents == {"v1", "v2", "bad"}
Absent == "absent"
NoStaging == [f \in Tracked |-> Absent]

\* lines 80-92: py_compile of the file at path
check_syntax(content) == content \in Contents \ {"bad"}

\* lines 154-183: the syntax check of the staged entry script, then the
\* import and --help checks, whose outcome (rest) depends on the scripts and
\* on the subprocess finishing in time
validate_staged_scripts(staged, rest) ==
  check_syntax(staged[ENTRY_SCRIPT]) /\ rest

\* lines 209-239: what download_to_staging leaves in the staging directory
\* when the fetch of the files in failed fails ...
Downloaded(live, remote, failed) ==
  [f \in Tracked |-> IF f \in failed THEN live[f] ELSE remote[f]]

\* ... and the file names it reports as changed
Changed(live, remote, failed) ==
  {f \in Tracked \ failed : remote[f] # live[f]}

UpdateProceedsAnyway(passed) == TRUE

\* line 376: if not passed: ... continue
UpdateProceeds(passed) == passed

\* lines 295-339: main before its first download; WORK_DIR holds the scripts
\* of the image, or none
InitWatchdog ==
  /\ DiskWith({})
  /\ auto_refresh = FALSE
  /\ InitSessions
  /\ th = [t \in Threads |-> IF t \in Callers THEN IdleThread ELSE Unstarted]
  /\ hub = NoHub
  /\ refresher = NoRefresher
  /\ \E c \in {"v1", Absent} :
       watchdog = [made |-> TRUE, pc |-> "pull",
                   live |-> [f \in Tracked |-> c],
                   remote |-> [f \in Tracked |-> "v1"],
                   staged |-> NoStaging, staging |-> 0, stagings |-> 0,
                   any_changed |-> FALSE, passed |-> FALSE, validated |-> 0,
                   i |-> 1, agent_proc |-> None, consecutive_failures |-> 0]


\* Only main's variables, WORK_DIR, the repository and the agent change.
WatchdogOnly == UNCHANGED <<sdkVars, hub, refresher>>

\* the with block of a staging directory is left: the directory is removed
Cleaned(w) == [w EXCEPT !.staging = 0, !.staged = NoStaging]

\* lines 310-323: an attempt of the initial loop, up to the test for missing
\* files
InitialPull(failed) ==
  /\ watchdog.made
  /\ watchdog.pc = "pull"
  /\ watchdog.stagings < MaxChecks
  /\ LET staged == Downloaded(watchdog.live, watchdog.remote, failed)
         made == [watchdog EXCEPT
                    !.stagings = @ + 1, !.staging = watchdog.stagings + 1,
                    !.staged = staged] IN
     watchdog' = IF \E f \in Tracked : staged[f] = Absent
                   THEN Cleaned(made)
                   ELSE [made EXCEPT !.pc = "initial_validate"]
  /\ WatchdogOnly

\* lines 325-337: the checks of the initial loop
InitialValidate(rest) ==
  /\ watchdog.made
  /\ watchdog.pc = "initial_validate"
  /\ LET passed == validate_staged_scripts(watchdog.staged, rest) IN
     watchdog' = IF passed
       THEN [watchdog EXCEPT !.passed = TRUE, !.validated = watchdog.staging,
                             !.pc = "initial_promote", !.i = 1]
       ELSE Cleaned([watchdog EXCEPT !.passed = FALSE, !.pc = "pull"])
  /\ WatchdogOnly

\* lines 244-248: promote_staging copies one tracked file; after the last
\* one main goes on to spawn_agent (line 339) or to kill_agent (line 390)
PromoteFile ==
  /\ watchdog.made
  /\ watchdog.pc \in {"initial_promote", "promote"}
  /\ LET f == TRACKED_FILES[watchdog.i]
         copied == IF watchdog.staged[f] # Absent
                     THEN [watchdog EXCEPT !.live[f] = watchdog.staged[f]]
                     ELSE watchdog IN
     watchdog' =
       IF watchdog.i < Len(TRACKED_FILES)
         THEN [copied EXCEPT !.i = @ + 1]
         ELSE IF watchdog.pc = "initial_promote"
           THEN Cleaned([copied EXCEPT !.i = 1, !.pc = "spawn"])
           ELSE [copied EXCEPT !.i = 1, !.pc = "kill"]
  /\ WatchdogOnly

\* lines 339-341 and 391: spawn_agent, and the staging directory of the
\* update is removed
Spawn ==
  /\ watchdog.made
  /\ watchdog.pc \in {"spawn", "respawn"}
  /\ watchdog' = Cleaned([watchdog EXCEPT !.agent_proc = "running",
                                          !.pc = "sleep"])
  /\ WatchdogOnly

\* lines 348-354: the agent has exited by itself and is started again
Restart ==
  /\ watchdog.made
  /\ watchdog.pc = "sleep"
  /\ watchdog.agent_proc = "exited"
  /\ watchdog' = [watchdog EXCEPT !.agent_proc = "running"]
  /\ WatchdogOnly

\* lines 357-368: CHECK_INTERVAL has passed; download_to_staging
Check(failed) ==
  /\ watchdog.made
  /\ watchdog.pc = "sleep"
  /\ watchdog.agent_proc = "running"
  /\ watchdog.stagings < MaxChecks
  /\ LET any_changed ==
           Changed(watchdog.live, watchdog.remote, failed) # {}
         made == [watchdog EXCEPT
                    !.stagings = @ + 1, !.staging = watchdog.stagings + 1,
                    !.staged = Downloaded(watchdog.live, watchdog.remote,
                                          failed),
                    !.any_changed = any_changed] IN
     watchdog' = IF any_changed THEN [made EXCEPT !.pc = "validate"]
                                ELSE Cleaned(made)
  /\ WatchdogOnly

\* lines 372-388: the checks of an update, and what main does with the
\* result
Validate(rest) ==
  /\ watchdog.made
  /\ watchdog.pc = "validate"
  /\ LET passed == validate_staged_scripts(watchdog.staged, rest)
         checked == [watchdog EXCEPT
                       !.passed = passed,
                       !.validated = IF passed THEN watchdog.staging ELSE @]
     IN
     watchdog' = IF UpdateProceeds(passed)
       THEN [checked EXCEPT !.consecutive_failures = 0, !.pc = "promote",
                            !.i = 1]
       ELSE Cleaned([checked EXCEPT !.consecutive_failures = @ + 1,
                                    !.pc = "sleep"])
  /\ WatchdogOnly

\* lines 277-288: kill_agent stops the process unless it has exited
kill_agent(proc) == IF proc = "running" THEN "exited" ELSE proc

\* line 390
Kill ==
  /\ watchdog.made
  /\ watchdog.pc = "kill"
  /\ watchdog' = [watchdog EXCEPT !.agent_proc = kill_agent(@),
                                  !.pc = "respawn"]
  /\ WatchdogOnly

\* lines 393-396: KeyboardInterrupt ends main; inside the try block the
\* agent is stopped first
Interrupt ==
  /\ watchdog.made
  /\ watchdog.pc # "done"
  /\ watchdog' = Cleaned(
       IF watchdog.pc \in {"sleep", "validate", "promote", "kill", "respawn"}
         THEN [watchdog EXCEPT !.agent_proc = kill_agent(@), !.pc = "done"]
         ELSE [watchdog EXCEPT !.pc = "done"])
  /\ WatchdogOnly

\* The agent process exits by itself.
AgentExits ==
  /\ watchdog.made
  /\ watchdog.agent_proc = "running"
  /\ watchdog' = [watchdog EXCEPT !.agent_proc = "exited"]
  /\ WatchdogOnly

\* A tracked file changes in the repository.
Push(f, c) ==
  /\ watchdog.made
  /\ watchdog.remote[f] # c
  /\ watchdog' = [watchdog EXCEPT !.remote[f] = c]
  /\ WatchdogOnly

NextWatchdog ==
  \/ \E failed \in SUBSET Tracked : InitialPull(failed)
  \/ \E rest \in BOOLEAN : InitialValidate(rest)
  \/ PromoteFile
  \/ Spawn
  \/ Restart
  \/ \E failed \in SUBSET Tracked : Check(failed)
  \/ \E rest \in BOOLEAN : Validate(rest)
  \/ Kill
  \/ Interrupt
  \/ AgentExits
  \/ \E f \in Tracked, c \in Contents : Push(f, c)

SpecWatchdog == InitWatchdog /\ [][NextWatchdog]_vars

(***************************************************************************)
(* skills/openbotclaw/openbotclaw.py: one OpenBotClawHub, the thread that  *)
(* calls its methods (main), its polling thread (poll) and the thread      *)
(* _schedule_reconnect starts (rec), against a server that goes down and   *)
(* comes back and may reject a request while it is up.                     *)
(***************************************************************************)
\* messages the caller hands to _send in one behaviour
MaxSends == 2

reconnect_max_delay == 60
HubThreads == {"main", "poll", "rec"}
\* The messages handed to _send: <<type, n>>, the n-th message of the program.
MessageTypes == {"register", "chat"}

\* lines 883-894
is_connected(state) == state \in {"connected", "registered"}

\* lines 896-907
is_registered(state) == state = "registered"

Min(a, b) == IF a < b THEN a ELSE b

\* lines 1278-1281: the delay before the reconnect attempt
ReconnectDelay(h) ==
  Min(h.reconnect_delay * (2 ^ (h.reconnect_attempts - 1)),
      h.reconnect_max_delay)

\* lines 165-209: the attributes __init__ sets, and the server up
NewHub(ar, mq) ==
  [made |-> TRUE, state |-> "disconnected", running |-> FALSE,
   auto_reconnect |-> ar, reconnect_max_delay |-> reconnect_max_delay,
   enable_message_queue |-> mq, reconnect_attempts |-> 0,
   reconnect_delay |-> 1, session |-> FALSE, queue |-> <<>>,
   lock |-> None, pc |-> [t \in HubThreads |-> IF t = "main" THEN "idle"
                                                             ELSE "dead"],
   message |-> None, up |-> TRUE,
   \* history
   called |-> FALSE, sends |-> 0, delay |-> 0, queued |-> {}, tried |-> {},
   retried |-> FALSE]

InitHub ==
  /\ DiskWith({})
  /\ auto_refresh = FALSE
  /\ InitSessions
  /\ th = [t \in Threads |-> IF t \in Callers THEN IdleThread ELSE Unstarted]
  /\ watchdog = NoWatchdog
  /\ refresher = NoRefresher
  /\ \E ar \in BOOLEAN, mq \in BOOLEAN : hub = NewHub(ar, mq)

\* Only the hub and its server change.
HubOnly == UNCHANGED <<sdkVars, watchdog, refresher>>

\* lines 384-392: connect takes the lock, tests the state and creates the
\* HTTP session
ConnectBegin(t) ==
  /\ hub.made
  /\ hub.pc[t] = (IF t = "main" THEN "idle" ELSE "call")
  /\ hub.lock = None
  /\ hub' = IF hub.state \in {"disconnected", "reconnecting"}
       THEN [hub EXCEPT !.lock = t, !.state = "connecting", !.session = TRUE,
                        !.pc[t] = "test", !.called = TRUE]
       ELSE [hub EXCEPT !.pc[t] = IF t = "main" THEN "idle" ELSE "dead"]
  /\ HubOnly

\* the method of thread t returns (a thread other than main ends)
HubReturn(h, t) ==
  [h EXCEPT !.pc[t] = IF t = "main" THEN "idle" ELSE "dead",
            !.lock = IF h.lock = t THEN None ELSE @, !.message = None]

\* connect(), called by the program
ConnectCall ==
  /\ ~hub.called
  /\ ConnectBegin("main")

\* lines 394-421: the status request; on success the hub is connected and
\* its polling thread started
ConnectTest(t) ==
  /\ hub.made
  /\ hub.pc[t] = "test"
  /\ hub' = IF hub.up
       THEN [hub EXCEPT !.state = "connected", !.running = TRUE,
                        !.reconnect_attempts = 0, !.reconnect_delay = 1,
                        !.pc[t] = "drain", !.pc["poll"] = "loop",
                        !.queued = {hub.queue[i] : i \in DOMAIN hub.queue},
                        !.tried = {}]
       ELSE HubReturn([hub EXCEPT !.state = "disconnected"], t)
  /\ HubOnly

\* lines 1245-1251: _process_message_queue takes the next queued message, or
\* finds the queue empty and connect returns
DrainGet(t) ==
  /\ hub.made
  /\ hub.pc[t] = "drain"
  /\ hub' = IF ~hub.enable_message_queue \/ hub.queue = <<>>
       THEN HubReturn(hub, t)
       ELSE [hub EXCEPT !.message = Head(hub.queue), !.queue = Tail(@),
                        !.pc[t] = "send"]
  /\ HubOnly

\* lines 1162-1241: _send with a server that accepts the request (ok) or
\* not: what becomes of the hub
Posted(h, msg, ok) ==
  IF ~h.session \/ ~is_connected(h.state)
    THEN IF h.enable_message_queue
           THEN [h EXCEPT !.queue = Append(@, msg)]
           ELSE h
    ELSE IF ok
      THEN IF msg[1] = "register" THEN [h EXCEPT !.state = "registered"]
                                  ELSE h
      ELSE IF h.enable_message_queue
             THEN [h EXCEPT !.queue = Append(@, msg)]
             ELSE h

\* lines 1252-1253: _send(message) inside the drain
DrainSend(t, ok) ==
  /\ hub.made
  /\ hub.pc[t] = "send"
  /\ hub.up \/ ~ok
  /\ hub' = [Posted(hub, hub.message, ok) EXCEPT
               !.pc[t] = "drain", !.message = None,
               !.tried = @ \cup {hub.message},
               !.retried = @ \/ hub.message \in hub.tried \cap hub.queued]
  /\ HubOnly

\* register() and chat(): lines 494-501 and 585-596, then _send
Send(type, ok) ==
  /\ hub.made
  /\ hub.pc["main"] = "idle"
  /\ hub.sends < MaxSends
  /\ IF type = "register" THEN is_connected(hub.state)
                          ELSE is_registered(hub.state)
  /\ hub.up \/ ~ok
  /\ (ok /\ type = "register") => hub.lock = None
  /\ hub' = [Posted(hub, <<type, hub.sends + 1>>, ok) EXCEPT !.sends = @ + 1]
  /\ HubOnly

\* lines 449-467 and 1294-1299: disconnect()
Disconnect ==
  /\ hub.made
  /\ hub.pc["main"] = "idle"
  /\ hub.lock = None
  /\ hub.state # "disconnected"
  /\ hub' = [hub EXCEPT !.running = FALSE, !.auto_reconnect = FALSE,
                        !.state = "disconnected", !.session = FALSE]
  /\ HubOnly

\* line 915: the polling loop finds _running false and ends
PollExit ==
  /\ hub.made
  /\ hub.pc["poll"] = "loop"
  /\ ~hub.running
  /\ hub' = [hub EXCEPT !.pc["poll"] = "dead"]
  /\ HubOnly

\* lines 917-933 and 943-968: the request of _poll_world_state fails
PollFails ==
  /\ hub.made
  /\ hub.pc["poll"] = "loop"
  /\ hub.running
  /\ is_connected(hub.state)
  /\ hub.session
  /\ ~hub.up
  /\ hub' = [hub EXCEPT !.pc["poll"] = "check"]
  /\ HubOnly

\* lines 936 and 970-983: the status request of _check_connection
PollCheck ==
  /\ hub.made
  /\ hub.pc["poll"] = "check"
  /\ hub' = [hub EXCEPT !.pc["poll"] =
       IF ~hub.session
         THEN IF hub.auto_reconnect /\ hub.running THEN "schedule" ELSE "dead"
         ELSE IF hub.up THEN "loop" ELSE "lost"]
  /\ HubOnly

\* lines 984-992 and 937: the connection is lost; the state is set under the
\* lock
PollLost ==
  /\ hub.made
  /\ hub.pc["poll"] = "lost"
  /\ hub.lock = None
  /\ hub' = [hub EXCEPT
       !.state = "disconnected",
       !.pc["poll"] =
         IF hub.auto_reconnect /\ hub.running THEN "schedule" ELSE "dead"]
  /\ HubOnly

\* lines 1271-1292 and 939: _schedule_reconnect, and the polling loop ends
PollSchedule ==
  /\ hub.made
  /\ hub.pc["poll"] = "schedule"
  /\ hub.lock = None
  /\ LET counted == [hub EXCEPT !.state = "reconnecting",
                                !.reconnect_attempts = @ + 1] IN
     hub' = [counted EXCEPT !.delay = ReconnectDelay(counted),
                            !.pc["poll"] = "dead", !.pc["rec"] = "sleep"]
  /\ HubOnly

\* lines 1285-1289: the reconnect thread wakes after the delay
RecWake ==
  /\ hub.made
  /\ hub.pc["rec"] = "sleep"
  /\ hub' = [hub EXCEPT !.pc["rec"] =
       IF hub.running /\ hub.state = "reconnecting" THEN "call" ELSE "dead"]
  /\ HubOnly

\* line 1289: self.connect()
RecConnect == ConnectBegin("rec")

\* The server becomes unreachable, and reachable again.
ServerDown ==
  /\ hub.made
  /\ hub.up
  /\ hub' = [hub EXCEPT !.up = FALSE]
  /\ HubOnly

ServerUp ==
  /\ hub.made
  /\ ~hub.up
  /\ hub' = [hub EXCEPT !.up = TRUE]
  /\ HubOnly

\* The steps of connect() in the thread that called it.
ConnectSteps(t) ==
  \/ ConnectTest(t)
  \/ DrainGet(t)
  \/ \E ok \in BOOLEAN : DrainSend(t, ok)

PollSteps == PollExit \/ PollFails \/ PollCheck \/ PollLost \/ PollSchedule
RecSteps == RecWake \/ RecConnect \/ ConnectSteps("rec")

NextHub ==
  \/ ConnectCall
  \/ \E t \in {"main", "rec"} : ConnectSteps(t)
  \/ \E type \in MessageTypes, ok \in BOOLEAN : Send(type, ok)
  \/ Disconnect
  \/ PollSteps
  \/ RecWake
  \/ RecConnect
  \/ ServerDown
  \/ ServerUp

\* A started thread that can take a step takes one: the program's call of
\* connect, the polling thread and the reconnect thread are scheduled.
SpecHub ==
  /\ InitHub
  /\ [][NextHub]_vars
  /\ WF_vars(ConnectSteps("main"))
  /\ WF_vars(PollSteps)
  /\ WF_vars(RecSteps)

(***************************************************************************)
(* The refresh loop on a clock in seconds, under the default               *)
(* configuration: one session in the cache of a manager constructed with   *)
(* auto_refresh=True, whose loop authenticate has started, and a server    *)
(* that accepts every refresh. Time passes in time.sleep and while a       *)
(* request is in flight; the statements between take none.                 *)
(***************************************************************************)
\* the last second of the clock
MaxClock == 20000

\* line 332: refresh_margin_seconds: int = 3600
default_refresh_margin == 3600
\* line 642: time.sleep(300)
sweep_sleep == 300
\* line 566: timeout=10
request_timeout == 10

\* The lifetimes the server gives a session, all longer than the margin.
LongLifetimes ==
  {default_refresh_margin + 1, default_refresh_margin + sweep_sleep,
   2 * default_refresh_margin}

\* The seconds an accepted request takes: none, or all its timeout allows.
Durations == {0, request_timeout}

\* A loop that waits until less than one sleep is left.
DueLate(remaining) == remaining < sweep_sleep /\ remaining > 0

\* line 636: seconds_remaining < self.refresh_margin_seconds and
\* seconds_remaining > 0
Due(remaining) == remaining < default_refresh_margin /\ remaining > 0

\* lines 484-496: authenticate has stored a session of the given lifetime and
\* started the loop. sent is the remaining lifetime at the refresh request
\* in flight, refreshed tells that the loop has stored a session, lapsed
\* that the cache held a session at or after its expiry.
NewRefresher(life) ==
  [made |-> TRUE, pc |-> "test", now |-> 0, expires_at |-> life, sent |-> 0,
   refreshed |-> FALSE, lapsed |-> FALSE]

InitRefresher ==
  /\ DiskWith({})
  /\ auto_refresh = TRUE
  /\ InitSessions
  /\ th = [t \in Threads |-> IF t \in Callers THEN IdleThread ELSE Unstarted]
  /\ watchdog = NoWatchdog
  /\ hub = NoHub
  /\ \E life \in LongLifetimes : refresher = NewRefresher(life)

\* Only the timed loop changes.
RefresherOnly == UNCHANGED <<sdkVars, watchdog, hub>>

\* lines 515-517 and 629-634: (expires_at - now).total_seconds()
Remaining(r) == r.expires_at - r.now

\* The clock of r after the given seconds.
Later(r, seconds) ==
  [r EXCEPT !.now = @ + seconds,
            !.lapsed = @ \/ r.expires_at <= r.now + seconds]

\* lines 618-621: the flag is on, and the loop lists the cached entities
TimedTest ==
  /\ refresher.pc = "test"
  /\ refresher' = [refresher EXCEPT !.pc = "examine"]
  /\ RefresherOnly

\* lines 623-637: the session is refreshed when it is due; line 642 else
TimedExamine ==
  /\ refresher.pc = "examine"
  /\ refresher' =
       IF Due(Remaining(refresher))
         THEN [refresher EXCEPT !.pc = "request", !.sent = Remaining(refresher)]
         ELSE [refresher EXCEPT !.pc = "sleep"]
  /\ RefresherOnly

\* lines 563-580: POST /auth/refresh is answered after took seconds with a
\* session of the given lifetime, issued after the first issued seconds of
\* the request; refresh_session stores it
TimedRefresh(took, issued, life) ==
  /\ refresher.pc = "request"
  /\ issued <= took
  /\ refresher.now + took <= MaxClock
  /\ refresher' =
       [Later(refresher, took) EXCEPT
          !.expires_at = refresher.now + issued + life,
          !.refreshed = TRUE,
          !.sent = 0,
          !.pc = "sleep"]
  /\ RefresherOnly

\* line 642: time.sleep(300) returns, and the loop tests its flag again
TimedSleep ==
  /\ refresher.pc = "sleep"
  /\ refresher.now + sweep_sleep <= MaxClock
  /\ refresher' = [Later(refresher, sweep_sleep) EXCEPT !.pc = "test"]
  /\ RefresherOnly

NextRefresher ==
  \/ TimedTest
  \/ TimedExamine
  \/ \E took \in Durations, issued \in Durations, life \in LongLifetimes :
       TimedRefresh(took, issued, life)
  \/ TimedSleep

SpecRefresher == InitRefresher /\ [][NextRefresher]_vars

(***************************************************************************)
(* Properties of the key pair on disk.                                     *)
(***************************************************************************)
\* No generate_rsa_keypair call is in progress.
NoGenerateRunning == \A p \in Procs : gen[p].pc = "idle"

\* Where both files of a path exist, they are the two halves of one pair.
PairOnDisk ==
  \A path \in Paths :
    (exists(privFile[path]) /\ exists(pubFile[path])) =>
      \E k \in 1..MaxGen :
        /\ privFile[path].content = PrivPem(k)
        /\ pubFile[path].content = PubPem(k)

\* The public key a successful call returned is the public half of the
\* private key file it wrote.
ReturnedMatchesDisk ==
  \A r \in returned : privFile[r.path].content = PrivPem(r.key)

\* C36: whenever no generate call is in progress and both key files of an
\* entity exist, the public file holds the public half of the private file,
\* and the public key a successful generate returned matches the private key
\* on disk, also after processes raced to generate the entity.
C36_PairConsistent == NoGenerateRunning => (PairOnDisk /\ ReturnedMatchesDisk)

\* A step leaves the key files of an entity that has a private key file as
\* they are, and writes no key material for it.
KeyFilesKept ==
  \A path \in Paths :
    privFile[path] # NoFile =>
      /\ privFile'[path] = privFile[path]
      /\ pubFile'[path] = pubFile[path]
      /\ written'[path] = written[path]

\* A registration in flight carries the content of the entity's public key
\* file, which is the public half of its private key file.
SendsStoredKey ==
  \A t \in Callers :
    InFlight(t, "/entity/create") =>
      LET path == key_path(th[t].ent) IN
      /\ th[t].req.public_key = pubFile[path].content
      /\ \E k \in 1..(MaxCalls + 2) :
           /\ pubFile[path].content = PubPem(k)
           /\ privFile[path].content = PrivPem(k)

\* C37: create_entity generates no second key pair for an entity that has a
\* private key file: it sends the stored public key, so repeated calls
\* register the same public key and never change the key files.
C37_CreateKeepsKeys == []SendsStoredKey /\ [][KeyFilesKept]_vars

\* A registration was refused and create_entity is called again: the second
\* request carries the key the first call generated, the only one generated.
C37_Witness ==
  \E t \in Callers :
    /\ InFlight(t, "/entity/create")
    /\ calls = 2
    /\ genCalls = 1
    /\ th[t].req.public_key = pubFile[key_path(th[t].ent)].content
    /\ Cardinality(written[key_path(th[t].ent)]) = 1

(***************************************************************************)
(* Properties of the session cache under concurrent calls.                 *)
(***************************************************************************)
\* Caller t has returned True from revoke_session(e) and started nothing
\* since.
RevokeReturnedTrue(t, e) ==
  /\ th[t].pc = "idle"
  /\ th[t].op = "revoke_session"
  /\ th[t].ent = e
  /\ th[t].ret.kind = "returned"
  /\ th[t].ret.flag

\* After such a return, a step that puts a session for e into the empty
\* entry is a step of an authenticate call for e.
RevokedStaysOut ==
  \A e \in Entities :
    (/\ \E t \in Callers : RevokeReturnedTrue(t, e)
     /\ sessions[e] = NoSession
     /\ sessions'[e] # NoSession) =>
      \E u \in Threads :
        /\ th[u].op = "authenticate"
        /\ th[u].ent = e
        /\ th'[u] # th[u]

\* C33: once revoke_session(entity) has returned true the cache holds no
\* session for the entity until an authenticate call for it commits one: a
\* refresh_session in flight while revoke ran does not put one back.
C33_RevokedStaysOut == [][RevokedStaysOut]_vars

\* The step in which get_session_token deletes the entry of its entity
\* deletes an expired session.
EvictsOnlyExpired ==
  \A t \in Callers :
    (/\ th[t].pc = "gst_evict"
     /\ th'[t].pc # "gst_evict"
     /\ sessions[th[t].ent] # NoSession
     /\ sessions'[th[t].ent] = NoSession) =>
      sessions[th[t].ent].expires_at <= now

\* C34: the eviction in get_session_token removes only the expired session
\* it observed: a fresh, unexpired session committed for the entity between
\* its read of the cache and its eviction is never deleted.
C34_EvictsOnlyExpired == [][EvictsOnlyExpired]_vars

\* C35: get_session_token never raises: under every interleaving with
\* revoke_session, authenticate, refresh_session or another
\* get_session_token on the entity it returns a token or none.
C35_GstNeverRaises ==
  \A t \in Callers :
    (th[t].pc = "idle" /\ th[t].op = "get_session_token") =>
      th[t].ret.kind # "raised"

(***************************************************************************)
(* Properties of stop.                                                     *)
(***************************************************************************)
\* stop() is the caller's last call: it was called, and authenticate has not
\* been called since.
Stopped == \A t \in Solo : th[t].op = "stop"

LoopsEnded == \A b \in Bgs : ~Alive(b)

\* The thread b passes the test of its while and begins a sweep.
SweepBegins(b) ==
  /\ th[b].pc \in {"loop_test", "sleep"}
  /\ th'[b].pc \in {"loop_next", "sleep"}
  /\ th'[b].swept = <<>>
  /\ th'[b] # th[b]

\* The thread b sends a refresh request.
LoopSends(b) == ~th[b].wait /\ th'[b].wait /\ th'[b].ctx = "loop"

\* A sweep begun before stop() that is still going on.
InSweep(b) == th[b].pc \in {"loop_next", "refresh_read"}

NoSweepAfterStop ==
  \A b \in Bgs :
    /\ SweepBegins(b) => ~Stopped
    /\ Stopped /\ LoopSends(b) => InSweep(b)

\* C38: after stop() is called, with no authenticate() called later, the
\* refresh threads eventually end, and no sweep begins, so that the only
\* refresh requests sent then belong to a sweep begun before stop().
C38_StopEndsLoop ==
  /\ (<>[]Stopped) => <>[]LoopsEnded
  /\ [][NoSweepAfterStop]_vars

\* stop() returned while a refresh thread was still alive, and the thread
\* has ended since.
C38_Witness ==
  /\ Stopped
  /\ \E t \in Solo, b \in Bgs :
       /\ th[t].pc = "idle"
       /\ th[t].ret.kind = "returned"
       /\ b \in th[t].ret.bgAlive
       /\ th[b].pc = "dead"

(***************************************************************************)
(* Properties of the refresh loop under the default configuration.         *)
(***************************************************************************)
\* C39: with the default margin (3600 s) and sweep (300 s), the loop running
\* and the server accepting every refresh with a lifetime longer than the
\* margin, a cached session issued with a lifetime longer than the margin is
\* never in the cache at or after its expiry, and every refresh request of
\* the loop was sent while 0 < remaining lifetime < margin.
C39_RefreshedBeforeExpiry ==
  refresher.made =>
    /\ ~refresher.lapsed
    /\ Remaining(refresher) > 0
    /\ refresher.pc = "request" =>
         refresher.sent > 0 /\ refresher.sent < default_refresh_margin

\* The loop has refreshed the session, and the clock is past the expiry of
\* the session authenticate stored and of the first one a refresh stored.
C39_Witness ==
  /\ refresher.made
  /\ refresher.refreshed
  /\ refresher.now > 4 * default_refresh_margin

(***************************************************************************)
(* Properties of the hub.                                                  *)
(***************************************************************************)
\* The connection was lost, or an attempt to restore it failed, on a hub
\* that reconnects automatically and on which disconnect() was not called.
Lost ==
  /\ hub.made
  /\ hub.auto_reconnect
  /\ hub.running
  /\ hub.state \in {"disconnected", "reconnecting"}

Recovered == is_connected(hub.state) \/ ~hub.auto_reconnect

\* C32: with auto_reconnect enabled, after the polling loop has detected a
\* lost connection the hub goes on attempting to reconnect until a connect
\* succeeds or disconnect() is called: if the server is reachable from some
\* time on, a lost hub is connected again, unless disconnect() was called.
C32_ReconnectsUntilConnected == (<>[]hub.up) => (Lost ~> Recovered)

\* C40: connect() terminates: the drain of the message queue attempts each
\* message that was queued when it started at most once, whatever the server
\* answers.
C40_DrainAttemptsOnce == hub.made => ~hub.retried

(***************************************************************************)
(* Properties of the watchdog.                                             *)
(***************************************************************************)
\* The staging directory main holds is one whose checks have passed.
ValidatedHere ==
  /\ watchdog.staging # 0
  /\ watchdog.validated = watchdog.staging
  /\ watchdog.passed

\* A step that changes a tracked file of WORK_DIR is taken with such a
\* staging directory, and copies from it.
PromotesOnlyValidated ==
  watchdog'.live # watchdog.live =>
    /\ ValidatedHere
    /\ \A f \in Tracked :
         watchdog'.live[f] \in {watchdog.live[f], watchdog.staged[f]}

\* So is the kill_agent call of the update check (line 390).
KillsOnlyValidated ==
  (watchdog.pc = "kill" /\ watchdog'.pc = "respawn") => ValidatedHere

\* The step in which the checks of an update fail returns to the top of the
\* loop: WORK_DIR and the agent process are as before, the staging directory
\* is gone.
FailedUpdateLeavesAgent ==
  (/\ watchdog.pc = "validate"
   /\ watchdog'.pc \in {"sleep", "promote", "kill"}
   /\ ~(watchdog'.passed /\ watchdog'.validated = watchdog.staging)) =>
    /\ watchdog'.pc = "sleep"
    /\ watchdog'.live = watchdog.live
    /\ watchdog'.agent_proc = watchdog.agent_proc
    /\ watchdog'.staging = 0

\* C31: in the periodic update check, when validate_staged_scripts fails no
\* tracked file of WORK_DIR is modified and the agent is not stopped;
\* promote_staging and the kill_agent call of the update happen only after
\* validate_staged_scripts passed for the staging directory in hand.
C31_FailedUpdateKeepsLive ==
  [][PromotesOnlyValidated /\ KillsOnlyValidated /\ FailedUpdateLeavesAgent]_vars

\* An update whose entry script does not compile has failed its checks: main
\* is back at the top of its loop, the agent runs, and WORK_DIR holds the
\* scripts it held.
C31_Witness ==
  /\ watchdog.made
  /\ watchdog.pc = "sleep"
  /\ watchdog.consecutive_failures = 1
  /\ watchdog.agent_proc = "running"
  /\ watchdog.remote[ENTRY_SCRIPT] = "bad"
  /\ watchdog.live = [f \in Tracked |-> "v1"]
  /\ ~watchdog.passed

(***************************************************************************)
(* Properties of the key store.                                            *)
(***************************************************************************)
\* A call of generate_rsa_keypair whose private key file existed when it started
\* is still before its check, or has failed with FileExistsError.
RefusedWhenKeyExists ==
  \A p \in Procs :
    gen[p].existed =>
      /\ gen[p].pc \in {"check", "idle"}
      /\ gen[p].pc = "idle" => gen[p].result = "FileExistsError"

\* No step of such a call changes a key file.
RefusalKeepsFiles ==
  \A p \in Procs :
    (gen[p].pc = "check" /\ gen[p].existed /\ gen'[p] # gen[p]) =>
      /\ privFile' = privFile
      /\ pubFile' = pubFile
      /\ gen'[p].result = "FileExistsError"

\* C1: generate for an entity_id whose private key file already exists fails
\* with FileExistsError and leaves both key files as they were, after any
\* sequence of earlier generate calls on the key directory.
C1_NoOverwrite == []RefusedWhenKeyExists /\ [][RefusalKeepsFiles]_vars

\* A second generate for an entity was refused, and the key pair the first
\* call wrote is still the one on disk.
C1_Witness ==
  \E p \in Procs, r \in returned :
    /\ gen[p].pc = "idle"
    /\ gen[p].existed
    /\ gen[p].result = "FileExistsError"
    /\ r.path = key_path(gen[p].id)
    /\ r.call < gen[p].call
    /\ privFile[r.path].content = PrivPem(r.key)
    /\ pubFile[r.path].content = PubPem(r.key)

\* C2: when processes race to generate the same entity, at most one call
\* returns success for a key file, and a private key file never holds
\* different key material after it was first written.
C2_RaceSafe ==
  \A path \in Paths :
    /\ Cardinality({r \in returned : r.path = path}) <= 1
    /\ Cardinality(written[path]) <= 1

(***************************************************************************)
(* Properties of authenticate.                                             *)
(***************************************************************************)
\* The calls of authenticate in progress.
Authenticating(t) == th[t].op = "authenticate" /\ th[t].pc # "idle"

\* The thread t takes a step.
Steps(t) == th'[t] # th[t]

\* The answer t holds was received with a status other than 200.
Refused(t) == ~th[t].wait /\ th[t].resp.status \notin {0, StatusOk}

\* A call waiting for, or holding, the answer to its challenge request has
\* had no other exchange; one waiting for, or holding, the answer to its
\* submission has had its challenge request answered with 200, and has
\* submitted the challenge_id of that answer, with the signature under its
\* own key of the challenge decrypted from that answer.
InOrder(t) ==
  LET r == th[t]
      had == IF r.wait THEN Len(r.got) ELSE Len(r.got) - 1
  IN
  /\ r.pc = "auth_challenge" =>
       /\ had = 0
       /\ r.req.endpoint = "/auth/challenge"
  /\ r.pc = "auth_session" =>
       /\ had = 1
       /\ r.got[1].req.endpoint = "/auth/challenge"
       /\ r.got[1].resp.status = StatusOk
       /\ r.req.endpoint = "/auth/session"
       /\ r.req.challenge_id = r.got[1].resp.challenge_id
       /\ r.req.signer = r.key
       /\ r.req.signed = Hex(r.got[1].resp.nonce)
       /\ r.key = r.got[1].resp.forKey
  /\ r.pc \in {"auth_check_running", "auth_start_refresh"} =>
       lastWrite[r.ent] # NoSession

AuthenticateInOrder == \A t \in Callers : Authenticating(t) => InOrder(t)

\* The JSON object a session response carries: the body, or the object that
\* was wrapped.
Carried(resp) ==
  IF resp.encrypted THEN resp.env.encryptedData.obj ELSE resp.body

\* A step of authenticate that stores a session is the step that handles the
\* answer to the submission: both requests were answered with 200, and what
\* is stored is the (unwrapped) body of the second answer.
CommitsLast ==
  \A t \in Callers :
    (Authenticating(t) /\ Steps(t) /\ lastWrite' # lastWrite) =>
      /\ th[t].pc = "auth_session"
      /\ Len(th[t].got) = 2
      /\ \A i \in 1..2 : th[t].got[i].resp.status = StatusOk
      /\ th[t].got[2].req = th[t].req
      /\ th[t].got[2].resp.encrypted =>
           th[t].got[2].resp.env.encryptedKey.forKey = th[t].key
      /\ sessions'[th[t].ent] = Session(th[t].ent, Carried(th[t].got[2].resp))

\* C3: within one call of authenticate the steps come in the order challenge
\* request, decrypt, sign, submission, unwrap, commit: the submission carries
\* the challenge_id of this call's own challenge response and the signature of
\* the challenge decrypted from it, and a session is stored only after both
\* requests were answered with HTTP 200.
C3_AuthenticateOrder == []AuthenticateInOrder /\ [][CommitsLast]_vars

\* An authenticate call has stored and returned a session while another
\* authenticate call, with a challenge of its own, waits for its submission.
C3_Witness ==
  \E t, u \in Callers :
    /\ th[t].pc = "idle" /\ th[t].op = "authenticate"
    /\ th[t].ret.kind = "returned" /\ th[t].ret.token # 0
    /\ sessions[IdUnder].token = th[t].ret.token
    /\ th[u].pc = "auth_session" /\ th[u].wait
    /\ th[u].req.challenge_id \in submitted

\* The refresh threads that have been started and have not ended.
AliveThreads == {b \in Bgs : Alive(b)}

\* A call of authenticate sends its challenge request first and its
\* submission second, and nothing else.
OneOfEach ==
  \A t \in Callers : Authenticating(t) =>
    /\ Len(th[t].got) <= 2
    /\ \A i \in 1..Len(th[t].got) :
         th[t].got[i].req.endpoint =
           IF i = 1 THEN "/auth/challenge" ELSE "/auth/session"
    /\ th[t].wait =>
         th[t].req.endpoint =
           IF th[t].got = <<>> THEN "/auth/challenge" ELSE "/auth/session"

\* The step that handles a refused answer ends the call with the error,
\* sends nothing, starts no thread and leaves the cache as it is; and a
\* step that sends a submission sends a challenge_id never submitted before.
RefusalEndsCall ==
  \A t \in Callers :
    /\ (Authenticating(t) /\ Refused(t) /\ Steps(t)) =>
         /\ th'[t].pc = "idle"
         /\ th'[t].ret = Raised("RuntimeError")
         /\ \A u \in Threads : th'[u].wait => th[u].wait
         /\ submitted' = submitted
         /\ UNCHANGED <<refresh_running, refresh_thread>>
         /\ {b \in Bgs : th'[b].pc \notin {"unstarted", "dead"}} = AliveThreads
         /\ UNCHANGED <<sessions, order>>
    /\ (Authenticating(t) /\ ~th[t].wait /\ th'[t].wait) =>
         /\ th'[t].req.endpoint = "/auth/session"
         /\ th'[t].req.challenge_id \notin submitted
         /\ th'[t].req.challenge_id \in submitted'

\* C4: when the challenge request or the submission is answered with a status
\* other than 200, authenticate raises its error, sends no further request
\* (a call sends one challenge request and at most one submission, and no
\* challenge_id is submitted twice), starts no refresh thread and leaves the
\* session cache, an earlier session of the entity included, unchanged.
C4_RefusedAuthenticate == []OneOfEach /\ [][RefusalEndsCall]_vars

\* An authenticate call was refused while the manager had auto_refresh on,
\* its loop stopped, and an earlier session of the entity cached: the session
\* is still there and no thread runs.
C4_Witness ==
  \E t \in Callers :
    /\ th[t].pc = "idle" /\ th[t].op = "authenticate"
    /\ th[t].ret = Raised("RuntimeError")
    /\ auto_refresh /\ ~refresh_running
    /\ sessions[IdUnder] # NoSession
    /\ AliveThreads = {}


(***************************************************************************)
(* Properties of the session cache.                                        *)
(***************************************************************************)
\* t begins a call of op.
Begins(t, op) == th[t].pc = "idle" /\ Steps(t) /\ th'[t].op = op

\* A call that finds the cached session expired goes on to evict it without
\* sending a request, and the eviction removes the entry and returns None.
ExpiredIsEvicted ==
  \A t \in Callers :
    /\ (Begins(t, "get_session_token") /\ sessions[th'[t].ent] # NoSession
          /\ Expired(sessions[th'[t].ent])) =>
         th'[t].pc = "gst_evict" /\ ~th'[t].wait
    /\ (th[t].pc = "gst_evict" /\ Steps(t)) =>
         /\ th'[t].pc = "idle"
         /\ th'[t].ret = Returned(0, FALSE)
         /\ sessions'[th[t].ent] = NoSession

\* C6: when the cached session's expires_at is at or before the current time,
\* get_session_token returns None, sends no refresh request and removes the
\* entity's entry from the cache.
C6_ExpiredEvicts == [][ExpiredIsEvicted]_vars

\* The cache holds, for an entity it has an entry for, the session stored last.
CacheIsLastWrite ==
  \A e \in Entities : sessions[e] # NoSession => sessions[e] = lastWrite[e]

\* A store puts in the cache the token and the expires_at of the one answer
\* the storing call holds.
WritesWhole ==
  \A e \in Entities : lastWrite'[e] # lastWrite[e] =>
    \E t \in Threads :
      /\ Steps(t) /\ th[t].ent = e
      /\ ~th[t].wait /\ IsOk(th[t].resp)
      /\ th[t].op \in {"authenticate", "refresh_session"}
      /\ sessions'[e] = Session(e, Carried(th[t].resp))

\* get_session_token returns the token of the session stored last, if the
\* entity has an entry.
GstSeesLastWrite ==
  \A t \in Callers : (th[t].pc = "gst_return" /\ Steps(t)) =>
    th'[t].ret.token =
      IF sessions[th[t].ent] = NoSession THEN 0 ELSE lastWrite[th[t].ent].token

\* C7: for concurrent authenticate and refresh_session calls on one entity
\* every cache write is atomic (the stored token and expires_at come from the
\* same server answer), the cache holds the session of the call that wrote
\* last, and that is the one get_session_token returns.
C7_LastWriterWins == []CacheIsLastWrite /\ [][WritesWhole /\ GstSeesLastWrite]_vars

\* An authenticate and a refresh_session of the same entity have both stored
\* and returned; the refresh got its answer first (the smaller token) and
\* wrote last: the cache holds its session.
C7_Witness ==
  \E t, u \in Callers :
    /\ th[t].pc = "idle" /\ th[t].op = "authenticate"
    /\ th[u].pc = "idle" /\ th[u].op = "refresh_session"
    /\ th[t].ent = th[u].ent
    /\ th[t].ret.kind = "returned" /\ th[u].ret.kind = "returned"
    /\ 0 < th[u].ret.token /\ th[u].ret.token < th[t].ret.token
    /\ sessions[th[u].ent].token = th[u].ret.token
    /\ sessions[th[u].ent] = lastWrite[th[u].ent]

\* revoke_session does not raise.
RevokeNeverRaises ==
  \A t \in Callers : th[t].op = "revoke_session" => th[t].ret.kind # "raised"

\* A revoke_session that finds a session cached sends its DELETE, and whatever
\* comes of the request (an answer of any status, or none) it then removes
\* the entry and returns True.
RevokeRemoves ==
  \A t \in Callers :
    /\ (Begins(t, "revoke_session") /\ sessions[th'[t].ent] # NoSession) =>
         /\ th'[t].pc = "revoke_response" /\ th'[t].wait
         /\ th'[t].req.endpoint = "DELETE /auth/session"
    /\ (th[t].pc = "revoke_response" /\ ~th[t].wait /\ Steps(t)) =>
         /\ th'[t].pc = "idle"
         /\ th'[t].ret = ReturnedFlag(TRUE)
         /\ sessions'[th[t].ent] = NoSession

C5_TokenLive ==
  \A t \in Callers :
    (th[t].pc = "idle" /\ th[t].op = "get_session_token"
       /\ th[t].ret.kind = "returned" /\ th[t].ret.token # 0) => th[t].ret.live

\* C8: at any time at most one refresh thread of the manager is alive.
C8_OneThread == Cardinality(AliveThreads) <= 1

\* C9: when stop returns, the refresh thread has ended.
C9_StopJoins ==
  \A t \in Callers :
    (th[t].pc = "idle" /\ th[t].op = "stop" /\ th[t].ret.kind = "returned") =>
      th[t].ret.bgAlive = {}

(***************************************************************************)
(* Properties of revoke_session and refresh_session.                       *)
(***************************************************************************)
\* A revoke_session that finds no session cached for its entity returns False
\* in that very step: it sends nothing and leaves the cache as it is.
RevokeOfNothing ==
  \A t \in Callers :
    (Begins(t, "revoke_session") /\ sessions[th'[t].ent] = NoSession) =>
      /\ th'[t].pc = "idle"
      /\ th'[t].ret.kind = "returned" /\ th'[t].ret.flag = FALSE
      /\ \A u \in Threads : th'[u].wait => th[u].wait
      /\ UNCHANGED <<sessions, order>>

\* C11: revoke_session called when no session is cached returns False, does
\* not raise, sends no request and leaves the cache unchanged; so a second
\* revoke directly after a first returns False.
C11_RevokeIdempotent == []RevokeNeverRaises /\ [][RevokeOfNothing]_vars

\* A revoke_session has returned False for an entity whose session another
\* revoke_session removed before (at time 0 nothing has expired, and nothing
\* else removes an entry): no session is cached.
C11_Witness ==
  \E t \in Callers :
    /\ th[t].pc = "idle" /\ th[t].op = "revoke_session"
    /\ th[t].ret.kind = "returned" /\ th[t].ret.flag = FALSE
    /\ lastWrite[th[t].ent] # NoSession
    /\ sessions[th[t].ent] = NoSession
    /\ now = 0
    /\ calls = 3

\* A direct refresh_session that finds no session cached raises in that very
\* step, without a request; one whose request the server refuses raises and
\* leaves the cache as it is.
RefreshFails ==
  \A t \in Callers :
    /\ (Begins(t, "refresh_session") /\ sessions[th'[t].ent] = NoSession) =>
         /\ th'[t].pc = "idle"
         /\ th'[t].ret = Raised("RuntimeError")
         /\ \A u \in Threads : th'[u].wait => th[u].wait
         /\ UNCHANGED <<sessions, order>>
    /\ (th[t].op = "refresh_session" /\ th[t].pc = "refresh_response"
          /\ Refused(t) /\ Steps(t)) =>
         /\ th'[t].pc = "idle"
         /\ th'[t].ret = Raised("RuntimeError")
         /\ \A u \in Threads : th'[u].wait => th[u].wait
         /\ UNCHANGED <<sessions, order>>

\* C14: refresh_session with no cached session raises its error without
\* sending a request; when the server refuses the refresh (a status other
\* than 200) it raises its error and leaves the cached session unchanged.
C14_RefreshErrors == [][RefreshFails]_vars

\* A direct refresh_session was refused by the server and has raised; the
\* session it tried to refresh is still the cached one.
C14_Witness ==
  \E t \in Callers :
    /\ th[t].pc = "idle" /\ th[t].op = "refresh_session"
    /\ th[t].ret = Raised("RuntimeError")
    /\ sessions[th[t].ent] # NoSession
    /\ sessions[th[t].ent] = lastWrite[th[t].ent]
    /\ \A u \in Callers \ {t} : th[u].op = "none"

\* The keys of the cache are the entities that have a session, each once.
OneEntryEach ==
  /\ \A i, j \in DOMAIN order : order[i] = order[j] => i = j
  /\ {order[i] : i \in DOMAIN order} = {e \in Entities : sessions[e] # NoSession}

\* The cache holds no token that a later store has replaced.
SupersededIsGone ==
  \A e \in Entities : sessions[e] # NoSession => sessions[e].token \notin superseded

\* A store over an existing entry replaces its token and its expires_at by
\* those of one answer, and the token it replaces is superseded; and
\* get_session_token returns no superseded token.
Supersedes ==
  /\ \A e \in Entities :
       (lastWrite'[e] # lastWrite[e] /\ sessions[e] # NoSession) =>
         /\ sessions'[e].token # sessions[e].token
         /\ sessions[e].token \in superseded'
         /\ \E t \in Threads :
              /\ Steps(t) /\ th[t].ent = e /\ IsOk(th[t].resp)
              /\ sessions'[e].token = Carried(th[t].resp).session_token
              /\ sessions'[e].expires_at = Carried(th[t].resp).expires_at
  /\ \A t \in Callers :
       (th[t].op = "get_session_token" /\ th[t].pc # "idle" /\ th'[t].pc = "idle") =>
         th'[t].ret.token \notin superseded'

\* C15: the cache holds at most one session per entity_id: a successful
\* refresh_session or a repeated authenticate replaces the entity's token and
\* expires_at together, and get_session_token never again returns the token
\* that was replaced.
C15_OneSessionPerEntity ==
  []OneEntryEach /\ []SupersededIsGone /\ [][Supersedes]_vars

\* get_session_token has returned the entity's token after an earlier token
\* of the entity was replaced.
C15_Witness ==
  \E t \in Callers :
    /\ th[t].pc = "idle" /\ th[t].op = "get_session_token"
    /\ th[t].ret.kind = "returned" /\ th[t].ret.token # 0
    /\ superseded # {}
    /\ th[t].ret.token = sessions[th[t].ent].token
    /\ Len(order) = 1

(***************************************************************************)
(* Properties of the refresh loop.                                         *)
(***************************************************************************)
\* The thread t sends a request in this step.
Sends(t) == ~th[t].wait /\ th'[t].wait

\* A loop thread that is in refresh_session is there for the entity it
\* examined last.
RefreshesExamined ==
  \A b \in Bgs : th[b].pc \in {"refresh_read", "refresh_response"} =>
    /\ th[b].swept # <<>>
    /\ th[b].ent = th[b].swept[Len(th[b].swept)]

\* The step that examines an entity goes on to refresh_session only if the
\* entity's session has 0 < remaining lifetime < margin at that moment, and
\* itself sends nothing and changes nothing in the cache; a loop thread sends
\* only refresh requests, and only from refresh_session; and a loop thread
\* changes the cache only by storing the answer to a refresh it asked for.
SweepIsSelective ==
  \A b \in Bgs :
    /\ (th[b].pc = "loop_next" /\ Steps(b)) =>
         LET session == sessions[Head(th[b].ids)] IN
         /\ th'[b].pc = "refresh_read" =>
              /\ session # NoSession
              /\ 0 < session.expires_at - now
              /\ session.expires_at - now < refresh_margin_seconds
         /\ ~Sends(b)
         /\ UNCHANGED <<sessions, order>>
    /\ (Alive(b) /\ Sends(b)) =>
         /\ th[b].pc = "refresh_read"
         /\ th'[b].req.endpoint = "/auth/refresh"
    /\ (Alive(b) /\ Steps(b) /\ sessions' # sessions) =>
         /\ th[b].pc = "refresh_response" /\ IsOk(th[b].resp)
         /\ \E i \in DOMAIN th[b].asked : th[b].asked[i] = th[b].ent
         /\ sessions'[th[b].ent] # NoSession
         /\ \A e \in Entities \ {th[b].ent} : sessions'[e] = sessions[e]

\* C16: in a sweep the loop sends a refresh request for a cached entity only
\* if 0 < remaining lifetime < refresh margin when it examines the entity; it
\* sends none for an expired session or for one with at least the margin
\* left, and it neither evicts nor modifies such entries.
C16_SweepSelective == []RefreshesExamined /\ [][SweepIsSelective]_vars

\* A loop thread has finished a sweep in which it examined an entity whose
\* session had expired, and asked for no refresh; the entry is still cached.
C16_Witness ==
  \E b \in Bgs, e \in Entities :
    /\ th[b].pc = "sleep"
    /\ th[b].swept = <<e>> /\ th[b].asked = <<>>
    /\ sessions[e] # NoSession /\ Expired(sessions[e])

\* The thread b is in the middle of a sweep.
Sweeping(b) == th[b].pc \in {"loop_next", "refresh_read", "refresh_response"}

\* No entity occurs twice in the sequence q.
NoRepeat(q) == \A i, j \in DOMAIN q : q[i] = q[j] => i = j

\* In a sweep a thread has asked for the refresh of entities it has examined
\* only, and of none of them twice.
AsksOncePerSweep ==
  \A b \in Bgs :
    /\ NoRepeat(th[b].asked)
    /\ \A i \in DOMAIN th[b].asked :
         \E j \in DOMAIN th[b].swept : th[b].swept[j] = th[b].asked[i]
    /\ NoRepeat(th[b].swept \o th[b].ids)

\* A step of a sweeping thread keeps the entities of the sweep (those examined
\* and those still to examine), leaves the thread in the sweep or asleep, and
\* puts it to sleep only when no entity is left; a refresh that failed sends
\* nothing more and leaves the entities still to examine as they were.
SweepGoesOn ==
  \A b \in Bgs : (Sweeping(b) /\ Steps(b)) =>
    /\ th'[b].swept \o th'[b].ids = th[b].swept \o th[b].ids
    /\ Sweeping(b)' \/ th'[b].pc = "sleep"
    /\ th'[b].pc = "sleep" => th'[b].ids = <<>>
    /\ (th[b].pc = "refresh_response" /\ ~th[b].wait /\ ~IsOk(th[b].resp)) =>
         /\ ~Sends(b)
         /\ th'[b].ids = th[b].ids
         /\ th'[b].asked = th[b].asked
         /\ th'[b].pc \in {"loop_next", "sleep"}

\* C17: when the refresh of one entity fails during a sweep, the loop still
\* examines every other entity that was cached at the start of the sweep and
\* keeps running, and it does not retry the failed entity before the next
\* sweep: at most one refresh request for each entity in each sweep.
C17_SweepSurvivesFailure == []AsksOncePerSweep /\ [][SweepGoesOn]_vars

\* A thread has finished a sweep of two entities in which it asked for the
\* refresh of the first; no refresh has succeeded, so that one failed.
C17_Witness ==
  \E b \in Bgs :
    /\ th[b].pc = "sleep"
    /\ Len(th[b].swept) = 2
    /\ th[b].asked # <<>> /\ th[b].asked[1] = th[b].swept[1]
    /\ superseded = {}

(***************************************************************************)
(* When the refresh loop is started.                                       *)
(***************************************************************************)
\* Some thread has been started on _refresh_loop, or the manager says so.
LoopStarted ==
  \/ refresh_running
  \/ refresh_thread # None
  \/ \E b \in Bgs : th[b].pc # "unstarted"

\* The loop has been started only if an authenticate has stored a session,
\* and never on a manager with auto_refresh off.
StartedAfterSuccess ==
  LoopStarted => (auto_refresh /\ \E e \in Entities : lastWrite[e] # NoSession)

\* The call of authenticate by t returns, or raises, in this step.
AuthReturns(t) ==
  Authenticating(t) /\ th'[t].pc = "idle" /\ th'[t].ret.kind = "returned"
AuthRaises(t) ==
  Authenticating(t) /\ th'[t].pc = "idle" /\ th'[t].ret.kind = "raised"

\* When authenticate returns on a manager with auto_refresh on, the flag is
\* set and a thread is in _refresh_loop; a thread is started only in the step
\* in which an authenticate returns; the step in which authenticate raises
\* starts no thread and leaves the flag and the thread's name as they were.
StartsOnSuccessOnly ==
  /\ \A t \in Callers : (AuthReturns(t) /\ auto_refresh) =>
       /\ refresh_running'
       /\ refresh_thread' # None
       /\ \E b \in Bgs : Alive(b)'
  /\ \A b \in Bgs : (th[b].pc = "unstarted" /\ th'[b].pc # "unstarted") =>
       \E t \in Callers : AuthReturns(t)
  /\ \A t \in Callers : AuthRaises(t) =>
       /\ UNCHANGED <<refresh_running, refresh_thread>>
       /\ \A b \in Bgs : th'[b] = th[b]

\* C18: the refresh loop is not running before the first successful
\* authenticate; after a successful authenticate on a manager with
\* auto_refresh on it is running; a failed authenticate never starts it, and
\* it is never started on a manager with auto_refresh off.
C18_LoopStartsOnSuccess == []StartedAfterSuccess /\ [][StartsOnSuccessOnly]_vars

\* An authenticate has returned on a manager with auto_refresh on, and a
\* thread is in _refresh_loop.
C18_Witness ==
  /\ auto_refresh /\ refresh_running
  /\ \E b \in Bgs : Alive(b)
  /\ \E t \in Callers :
       th[t].op = "authenticate" /\ th[t].pc = "idle" /\ th[t].ret.kind = "returned"

(***************************************************************************)
(* The refresh inside get_session_token.                                   *)
(***************************************************************************)
\* The thread t is in get_session_token.
InGst(t) == th[t].ctx = "gst"

\* A call of get_session_token goes on to refresh_session exactly when the
\* session it reads has not expired, has less than the margin left, and
\* auto_refresh is on; the step that decides sends nothing.
GstDecides ==
  \A t \in Callers : Begins(t, "get_session_token") =>
    LET session == sessions[th'[t].ent] IN
    /\ th'[t].pc = "refresh_read" <=>
         /\ session # NoSession
         /\ 0 < session.expires_at - now
         /\ session.expires_at - now < refresh_margin_seconds
         /\ auto_refresh
    /\ ~Sends(t)

\* A call of get_session_token sends a request only from refresh_session,
\* when the session is cached as refresh_session reads it, and has sent none
\* before; after refresh_session it goes to its return, whatever the outcome.
GstAsksOnce ==
  \A t \in Callers : (InGst(t) /\ Steps(t)) =>
    /\ Sends(t) <=>
         (th[t].pc = "refresh_read" /\ sessions[th[t].ent] # NoSession)
    /\ Sends(t) =>
         /\ th[t].asked = <<>> /\ th'[t].asked = <<th[t].ent>>
         /\ th'[t].req.endpoint = "/auth/refresh"
         /\ th'[t].req.bearer = sessions[th[t].ent].token
    /\ th[t].pc = "refresh_read" =>
         th'[t].pc \in {"refresh_response", "gst_return"}
    /\ (th[t].pc = "refresh_response" /\ ~th[t].wait) =>
         /\ th'[t].pc = "gst_return"
         /\ IsOk(th[t].resp) =>
              sessions'[th[t].ent].token = th[t].resp.body.session_token
    /\ th[t].pc \in {"gst_return", "gst_evict"} => th'[t].pc = "idle"

\* The call returns the token cached as it returns, None when there is none.
GstReturnsCached ==
  \A t \in Callers : (th[t].pc = "gst_return" /\ Steps(t)) =>
    /\ th'[t].ret.kind = "returned"
    /\ th'[t].ret.token = sessions[th[t].ent].token

\* C12 (as amended): get_session_token on an unexpired session with less
\* than the refresh margin left, auto_refresh being on, calls refresh_session
\* once before it returns; that call sends one refresh request if the session
\* is still cached when it reads it, and none otherwise; the call then returns
\* the token cached as it returns. It sends no refresh request when at least
\* the margin is left or auto_refresh is off.
C12_LazyRefresh == [][GstDecides /\ GstAsksOnce /\ GstReturnsCached]_vars

\* A get_session_token that goes on to refresh_session sends its request,
\* and one whose refresh succeeded returns the refreshed token.
GstRefreshSends ==
  \A t \in Callers :
    /\ (InGst(t) /\ th[t].pc = "refresh_read" /\ Steps(t)) => Sends(t)
    /\ (th[t].pc = "gst_return" /\ th[t].ret.kind = "returned" /\ Steps(t)) =>
         th'[t].ret.token = th[t].ret.token

\* C12 (as stated): get_session_token on an unexpired session with less than
\* the margin left, auto_refresh being on, sends exactly one refresh request
\* before it returns, and returns the refreshed token if the refresh succeeded.
C12_ExactlyOne == [][GstRefreshSends]_vars

\* A get_session_token has sent its one refresh request, the refresh has
\* succeeded, and the call is about to return the refreshed token.
C12_Witness ==
  \E t \in Callers :
    /\ th[t].pc = "gst_return"
    /\ th[t].asked = <<th[t].ent>>
    /\ th[t].ret.kind = "returned"
    /\ sessions[th[t].ent].token = th[t].ret.token

\* A refresh request of get_session_token that failed changes nothing in the
\* cache and takes the call to its return; the call then returns, without
\* raising, the token that is cached, and that token has not expired.
FailedRefreshKeepsToken ==
  \A t \in Callers :
    /\ (InGst(t) /\ th[t].pc = "refresh_response" /\ ~th[t].wait
          /\ ~IsOk(th[t].resp) /\ Steps(t)) =>
         /\ th'[t].pc = "gst_return"
         /\ UNCHANGED <<sessions, order>>
    /\ (th[t].pc = "gst_return" /\ th[t].asked # <<>>
          /\ th[t].ret.kind = "raised" /\ Steps(t)) =>
         /\ th'[t].ret.kind = "returned"
         /\ UNCHANGED <<sessions, order>>
         /\ sessions[th[t].ent] # NoSession =>
              /\ th'[t].ret.token = sessions[th[t].ent].token
              /\ sessions[th[t].ent].expires_at > now

\* C13: when the refresh attempted inside get_session_token fails (the
\* server refuses it, or the request fails), the call does not raise, returns
\* the existing token, which has not expired, and leaves the cached session
\* unchanged.
C13_FailedRefreshSwallowed == [][FailedRefreshKeepsToken]_vars

(***************************************************************************)
(* Properties of create_entity and of the setup flows.                     *)
(***************************************************************************)
\* The thread t, in create_entity, handles the response it has received.
HandlesCreate(t) ==
  th[t].pc = "create_response" /\ ~th[t].wait /\ Steps(t)

\* A direct call returns exactly when the status is 201 and the success flag
\* is set, and then returns the record of the response; on every other
\* response, and when the request fails, it raises.
CreateReturnsOnCreated ==
  \A t \in Callers : (HandlesCreate(t) /\ th[t].ctx = "direct") =>
    /\ th'[t].pc = "idle"
    /\ th'[t].ret.kind = "returned" <=>
         (th[t].resp.status = StatusCreated /\ th[t].resp.success)
    /\ th'[t].ret.kind = "returned" => th'[t].ret.record = th[t].resp.record
    /\ th'[t].ret.kind # "returned" =>
         /\ th'[t].ret.kind = "raised"
         /\ th'[t].ret.exc \in {"RuntimeError", "RequestException"}

\* No step of a call of create_entity changes the session cache.
CreateKeepsCache ==
  \A t \in Callers :
    (Steps(t) /\ (th'[t].op = "create_entity"
                    \/ (th[t].op = "create_entity" /\ th[t].pc # "idle"))) =>
      UNCHANGED <<sessions, order>>

\* C20: create_entity returns the server's record exactly when the response
\* status is 201 and the success flag is true; every other response (409,
\* any other status, 201 without the flag) makes it fail with an error; and
\* create_entity never changes the session cache.
C20_CreateEntity == [][CreateReturnsOnCreated /\ CreateKeepsCache]_vars

\* create_entity has returned a record on a manager that holds a session.
C20_Witness ==
  \E t \in Callers :
    /\ th[t].op = "create_entity" /\ th[t].pc = "idle"
    /\ th[t].ret.kind = "returned" /\ th[t].ret.record \in RecordIds
    /\ \E e \in Entities : sessions[e] # NoSession

\* The responses to the entity-creation request that make create_entity fail.
CreateRefusals ==
  {resp \in {[NoResp EXCEPT !.status = status, !.success = success,
                            !.error = error] :
               status \in CreateStatuses, success \in BOOLEAN,
               error \in ErrorTexts} : ~IsCreated(resp)}

\* What create_entity raises on a 409 differs from what it raises on every
\* other refusal.
ConflictIsTellable ==
  \A conflict, other \in CreateRefusals :
    (conflict.status = StatusConflict /\ other.status # StatusConflict) =>
      CreateOutcome(conflict) # CreateOutcome(other)

\* A setup flow whose create_entity receives a 409 goes on to authenticate.
ConflictProceeds ==
  \A t \in Callers :
    (HandlesCreate(t) /\ th[t].ctx = "setup"
       /\ th[t].resp.status = StatusConflict) =>
      th'[t].op = "authenticate"

\* C19: on HTTP 409 create_entity fails with an already-exists error that
\* callers can tell apart from every other registration failure, and the
\* agents' setup flows go on to authenticate after every 409, whatever the
\* text of the server's error message.
C19_ConflictRecovers == []ConflictIsTellable /\ [][ConflictProceeds]_vars

(***************************************************************************)
(* Failures inside authenticate.                                           *)
(***************************************************************************)
\* The thread t handles a 200 answer it has received at the place pc.
Handles(t, pc) ==
  th[t].pc = pc /\ ~th[t].wait /\ th[t].resp.status = StatusOk /\ Steps(t)

\* The call of t ends in this step with an exception that is neither the
\* RuntimeError of a refusal nor that of a failed request.
RaisesOwnError(t) ==
  /\ th'[t].pc = "idle" /\ th'[t].ret.kind = "raised"
  /\ th'[t].ret.exc \notin {"RuntimeError", "RequestException"}
  /\ th'[t].ret.token = 0

\* A challenge that cannot be decrypted with the entity's key: no submission
\* is sent and the call raises. A wrapped session response that cannot be
\* unwrapped: nothing is stored and the call raises.
DecryptFailureStops ==
  \A t \in Callers :
    /\ (Handles(t, "auth_challenge") /\ th[t].resp.forKey # th[t].key) =>
         /\ ~Sends(t)
         /\ submitted' = submitted
         /\ RaisesOwnError(t)
         /\ UNCHANGED <<sessions, order>>
    /\ (Handles(t, "auth_session") /\ th[t].resp.encrypted
          /\ (\/ th[t].resp.env.encryptedKey.forKey # th[t].key
              \/ th[t].resp.env # Wrap(Carried(th[t].resp),
                                       th[t].resp.env.encryptedKey.aes,
                                       th[t].resp.env.iv, th[t].key))) =>
         /\ ~Sends(t)
         /\ RaisesOwnError(t)
         /\ UNCHANGED <<sessions, order>>

\* C21: if decrypting the challenge fails, authenticate sends no session
\* submission; if unwrapping an encrypted session response fails, no session
\* is committed; in both cases the call raises an error that differs from a
\* server rejection's and substitutes no default value.
C21_DecryptFailure == [][DecryptFailureStops]_vars

\* The only authenticate so far sent its submission and then failed to
\* unwrap the session response: nothing is cached.
C21_Witness ==
  \E t \in Callers :
    /\ calls = 1 /\ submitted # {}
    /\ th[t].op = "authenticate" /\ th[t].pc = "idle"
    /\ th[t].ret.exc = "ValueError"
    /\ \A e \in Entities : sessions[e] = NoSession

(***************************************************************************)
(* Which object authenticate commits.                                      *)
(***************************************************************************)
\* The step of t that handles a 200 answer to the submission and returns:
\* the entry stored for the entity, and the token returned, are those of
\* the object inside the envelope when the response says encrypted, and
\* those of the response body when it does not. No other step of
\* authenticate changes the cache.
CommitsBySwitch ==
  \A t \in Callers :
    /\ (Handles(t, "auth_session") /\ th'[t].ret.kind = "returned") =>
         LET resp == th[t].resp
             e == th[t].ent
         IN /\ resp.encrypted =>
                 /\ sessions'[e].token = resp.env.encryptedData.obj.session_token
                 /\ sessions'[e].expires_at = resp.env.encryptedData.obj.expires_at
                 /\ th'[t].ret.token = resp.env.encryptedData.obj.session_token
            /\ ~resp.encrypted =>
                 /\ sessions'[e].token = resp.body.session_token
                 /\ sessions'[e].expires_at = resp.body.expires_at
                 /\ th'[t].ret.token = resp.body.session_token
    /\ (Authenticating(t) /\ Steps(t) /\ sessions' # sessions) =>
         Handles(t, "auth_session") /\ th'[t].ret.kind = "returned"

\* C22: authenticate commits the session_token and expires_at obtained by
\* unwrapping when the response's encrypted flag is true, and those of the
\* JSON body itself when the flag is false or absent.
C22_CommitsBySwitch == [][CommitsBySwitch]_vars

\* An authenticate has returned the token of a wrapped response, and it is
\* the cached one.
C22_Witness ==
  \E t \in Callers :
    /\ th[t].op = "authenticate" /\ th[t].pc = "idle"
    /\ th[t].ret.kind = "returned" /\ th[t].ret.token # 0
    /\ Len(th[t].got) = 2 /\ th[t].got[2].resp.encrypted
    /\ sessions[th[t].ent].token = th[t].ret.token

(***************************************************************************)
(* 200 answers with a field missing.                                       *)
(***************************************************************************)
\* The fields of a session object that the client reads.
SessionFields == {"session_token", "expires_at"}

\* The call of t ends in this step with an exception and the cache is as it
\* was.
FailsCacheSame(t) ==
  /\ th'[t].pc = "idle" /\ th'[t].ret.kind = "raised" /\ th'[t].ret.token = 0
  /\ ~Sends(t)
  /\ UNCHANGED <<sessions, order, lastWrite>>

\* A 200 answer that lacks a field the client reads ends the call with an
\* exception and leaves the cache alone: a challenge without challenge_id or
\* encrypted_challenge, a session response (wrapped for this key and intact,
\* or plain) or a refresh response without session_token or expires_at.
MissingFieldRaises ==
  \A t \in Callers :
    /\ (Handles(t, "auth_challenge") /\ th[t].resp.lacks # {}) =>
         FailsCacheSame(t) /\ submitted' = submitted
    /\ (/\ Handles(t, "auth_session")
        /\ th[t].resp.encrypted =>
              th[t].resp.env = Wrap(th[t].resp.env.encryptedData.obj,
                                    th[t].resp.env.encryptedKey.aes,
                                    th[t].resp.env.iv, th[t].key)
        /\ Carried(th[t].resp).lacks \cap SessionFields # {}) =>
         FailsCacheSame(t)
    /\ (Handles(t, "refresh_response")
          /\ th[t].resp.body.lacks \cap SessionFields # {}) =>
         FailsCacheSame(t)

\* Every store into the cache is made by the step that handles a 200 answer
\* carrying both fields, and stores that answer's token and expiry.
StoresComplete ==
  \A e \in Entities : lastWrite'[e] # lastWrite[e] =>
    \E t \in Callers :
      /\ Handles(t, "auth_session") \/ Handles(t, "refresh_response")
      /\ th[t].ent = e
      /\ Carried(th[t].resp).lacks = {}
      /\ sessions'[e] = Session(e, Carried(th[t].resp))

\* C29: if a 200 response of the challenge, session or refresh endpoint
\* lacks a field the client requires (challenge_id, encrypted_challenge,
\* session_token, expires_at), authenticate or refresh_session fails with an
\* error and the cache is unchanged: no entry with a missing token or expiry
\* is ever stored.
C29_MissingField == [][MissingFieldRaises /\ StoresComplete]_vars

\* A session is cached, and a refresh_session that received a 200 answer
\* without one of the fields has raised KeyError.
C29_Witness ==
  \E t \in Callers :
    /\ th[t].op = "refresh_session" /\ th[t].pc = "idle"
    /\ th[t].ret.exc = "KeyError"
    /\ sessions[th[t].ent] # NoSession
    /\ sessions[th[t].ent] = lastWrite[th[t].ent]

(***************************************************************************)
(* The envelope round trip.                                                *)
(***************************************************************************)
\* The result of unwrapping: with the private key that matches the public
\* key the AES key was encrypted for, an envelope that arrives as it was
\* sealed gives the object that was sealed; an envelope whose ciphertext or
\* tag differs from what was sealed gives an exception and no object.
UnwrapRoundTrip ==
  \A t \in Callers : th[t].pc = "unwrapped" =>
    LET sealed == th[t].got[1].resp.env
        env == th[t].resp.env
    IN /\ (env = sealed /\ th[t].key = sealed.encryptedKey.forKey) =>
            /\ th[t].ret.kind = "returned"
            /\ th[t].data = sealed.encryptedData.obj
       /\ (\/ env.encryptedData # sealed.encryptedData
           \/ env.authTag # sealed.authTag) =>
            /\ th[t].ret.kind = "raised"
            /\ th[t].data = NoData

NoKeyNoRequest ==
  \A t \in Callers :
    (Begins(t, "authenticate") /\ privFile[key_path(th'[t].ent)] = NoFile) =>
      /\ th'[t].pc = "idle" /\ ~th'[t].wait
      /\ th'[t].ret.kind = "raised" /\ th'[t].ret.exc = "FileNotFoundError"
      /\ th'[t].req = NoReq
      /\ UNCHANGED keyVars
      /\ UNCHANGED <<sessions, order, lastWrite, nextChallenge, submitted>>

\* C27: authenticate for an entity with no private key file fails with a
\* not-found error before any request is sent, creates no key file and
\* leaves the session cache unchanged.
C27_NoKeyNoRequest == [][NoKeyNoRequest]_vars

\* A session of the entity that has a key is cached, and an authenticate for
\* the entity without one has raised FileNotFoundError.
C27_Witness ==
  \E t \in Callers :
    /\ th[t].op = "authenticate" /\ th[t].pc = "idle"
    /\ privFile[key_path(th[t].ent)] = NoFile
    /\ th[t].ret.exc = "FileNotFoundError"
    /\ \E e \in Entities : sessions[e] # NoSession

(***************************************************************************)
(* The mode of the private key file.                                       *)
(***************************************************************************)
\* C26: in every reachable state in which a private key file exists on
\* disk, the intermediate states of generate_rsa_keypair included, the
\* file's mode is 0600.
C26_PrivateAlways0600 ==
  \A p \in Paths : exists(privFile[p]) => privFile[p].mode = Oct(6, 0, 0)

(***************************************************************************)
(* The token and the Authorization header of a fresh session.              *)
(***************************************************************************)
\* The thread t is in get_session_token, called directly or by
\* get_auth_header.
AsksToken(t) == th[t].op \in {"get_session_token", "get_auth_header"}

\* The header that carries the token T.
Bearer(T) == <<"Authorization", "Bearer", T>>

\* A call for an entity whose cached session expires no sooner than the
\* margin from now goes straight to its return and sends nothing; the
\* return gives the token cached then, and get_auth_header gives the header
\* with that token. get_auth_header gives {} exactly when the
\* get_session_token inside it gave no token.
FreshTokenServed ==
  \A t \in Callers :
    /\ (/\ th[t].pc = "idle" /\ Steps(t) /\ AsksToken(t)'
        /\ sessions[th'[t].ent] # NoSession
        /\ sessions[th'[t].ent].expires_at - now >= refresh_margin_seconds) =>
         /\ th'[t].pc = "gst_return" /\ ~th'[t].wait /\ th'[t].req = NoReq
         /\ UNCHANGED <<sessions, order>>
    /\ (th[t].pc = "gst_return" /\ Steps(t)) =>
         /\ th'[t].pc = "idle" /\ ~th'[t].wait
         /\ th'[t].ret.kind = "returned"
         /\ th'[t].ret.token = sessions[th[t].ent].token
         /\ UNCHANGED <<sessions, order>>
    /\ (AsksToken(t) /\ th[t].pc # "idle" /\ th'[t].pc = "idle") =>
         /\ th'[t].op = "get_session_token" => th'[t].ret.header = <<>>
         /\ th'[t].op = "get_auth_header" =>
              /\ th'[t].ret.token # 0 => th'[t].ret.header = Bearer(th'[t].ret.token)
              /\ th'[t].ret.token = 0 => th'[t].ret.header = <<>>

\* While a call that made no refresh attempt is between its two reads of
\* the cache, the entity's session is cached and has not expired; if no
\* store has replaced a session so far, it is the one authenticate stored.
FreshStaysCached ==
  \A t \in Callers :
    (AsksToken(t) /\ th[t].pc = "gst_return" /\ th[t].ret.kind = "none") =>
      /\ sessions[th[t].ent] # NoSession
      /\ sessions[th[t].ent] = lastWrite[th[t].ent]
      /\ sessions[th[t].ent].expires_at > now

\* C23: after authenticate succeeds with token T and an expiry further away
\* than the refresh margin, get_session_token returns T and get_auth_header
\* returns {"Authorization": "Bearer T"} without contacting the server;
\* get_auth_header returns {} exactly when get_session_token returns none.
C23_FreshTokenServed == [][FreshTokenServed]_vars /\ []FreshStaysCached

\* The call after a successful authenticate was get_auth_header, on a
\* manager with auto_refresh on: it has returned the header with the token
\* that authenticate stored, which is still the cached one.
C23_Witness ==
  \E t \in Callers :
    /\ auto_refresh /\ calls = 2 /\ superseded = {}
    /\ th[t].op = "get_auth_header" /\ th[t].pc = "idle"
    /\ th[t].ret.token # 0
    /\ th[t].ret.header = Bearer(lastWrite[th[t].ent].token)
    /\ sessions[th[t].ent] = lastWrite[th[t].ent]

(***************************************************************************)
(* Entities are independent.                                               *)
(***************************************************************************)
\* The entity e has a key in _sessions.
Keyed(seq, e) == \E i \in DOMAIN seq : seq[i] = e

\* A step that adds, changes or removes the cache entry of an entity is a
\* step of a thread that is in an operation on that entity (for a refresh
\* thread: in the refresh of that entity), and it leaves the entry of every
\* other entity as it was.
FrameByEntity ==
  \A e \in Entities :
    (sessions'[e] # sessions[e] \/ Keyed(order', e) # Keyed(order, e)) =>
      /\ \E t \in Threads :
           /\ Steps(t) /\ th[t].ent = e /\ th[t].pc # "idle"
           /\ th[t].op \in {"authenticate", "get_session_token",
                            "refresh_session", "revoke_session"}
                \/ th[t].ctx = "loop"
      /\ \A x \in Entities \ {e} :
           sessions'[x] = sessions[x] /\ Keyed(order', x) = Keyed(order, x)

\* C24: operations on one entity_id (authenticate, get_session_token,
\* refresh_session, revoke_session and the background loop's refresh of it)
\* never add, change or remove the cache entry of a different entity_id,
\* under every interleaving.
C24_FrameByEntity == [][FrameByEntity]_vars

\* Both entities were authenticated; one entity's session has since been
\* revoked and the other's is still the cached one.
C24_Witness ==
  \E e, x \in Entities :
    /\ e # x
    /\ lastWrite[e] # NoSession /\ lastWrite[x] # NoSession
    /\ sessions[x] = lastWrite[x]
    /\ sessions[e] = NoSession
    /\ \E t \in Callers : th[t].op = "revoke_session" /\ th[t].pc = "idle"
                           /\ th[t].ent = e /\ th[t].ret.flag

(***************************************************************************)
(* Managers are independent.                                               *)
(***************************************************************************)
\* The cache of a manager holds a session for an entity only if a store was
\* made into this manager's cache, and get_session_token gives a token only
\* then; the same holds for the manager set aside.
OwnSessionsOnly ==
  /\ \A e \in Entities :
       /\ sessions[e] # NoSession => lastWrite[e] # NoSession
       /\ (other_manager.made /\ other_manager.sessions[e] # NoSession) =>
            other_manager.lastWrite[e] # NoSession
  /\ \A t \in Callers :
       (th[t].op = "get_session_token" /\ th[t].pc = "idle"
          /\ th[t].ret.token # 0) => lastWrite[th[t].ent] # NoSession

\* The first store into a manager's cache for an entity is made by a step of
\* this manager's authenticate.
FirstStoreIsAuthenticate ==
  \A e \in Entities :
    (lastWrite[e] = NoSession /\ sessions'[e] # NoSession
       /\ other_manager' = other_manager) =>
      \E t \in Callers : th[t].op = "authenticate" /\ th[t].ent = e /\ Steps(t)

\* The manager set aside changes in no step of the manager in use: it
\* changes only when the program constructs the second manager or turns to
\* the other one, and then the manager set aside is the one that was in use,
\* as it was. A manager that is constructed has an empty cache and no
\* refresh thread.
OtherUntouched ==
  other_manager' # other_manager =>
    /\ \A t \in Callers : th[t].pc = "idle"
    /\ other_manager' = ThisManager
    /\ UNCHANGED <<privFile, pubFile, nextToken, nextChallenge>>
    /\ IF other_manager.made
         THEN ThisManager' = other_manager
         ELSE /\ \A e \in Entities : sessions'[e] = NoSession
              /\ order' = <<>>
              /\ ~refresh_running' /\ refresh_thread' = None
              /\ \A t \in Threads : th'[t].pc \in {"idle", "unstarted"}

\* C25: session state is per manager instance and in memory only: a newly
\* constructed EntityManager has an empty cache (get_session_token returns
\* none for every entity until its own authenticate succeeds), and
\* operations on one manager never change another manager's sessions or
\* background loop.
C25_PerManager ==
  []OwnSessionsOnly /\ [][FirstStoreIsAuthenticate /\ OtherUntouched]_vars

\* The first manager holds a session; the second, constructed afterwards,
\* has been asked for the token of the same entity and gave none.
C25_Witness ==
  \E t \in Callers, e \in Entities :
    /\ other_manager.made
    /\ other_manager.sessions[e] # NoSession
    /\ th[t].op = "get_session_token" /\ th[t].pc = "idle" /\ th[t].ent = e
    /\ th[t].ret.kind = "returned" /\ th[t].ret.token = 0
    /\ sessions[e] = NoSession

(***************************************************************************)
(* What the requests carry.                                                *)
(***************************************************************************)
\* Every request in flight: no field is the text of a private key file; a
\* registration carries the text of a public key file and no signature; a
\* submission carries the signature, made with the caller's key, over the
\* challenge as decrypted, and no key text; a challenge request, a refresh
\* and a revocation carry neither.
RequestsCarryNoPrivateKey ==
  \A t \in Threads : th[t].wait =>
    LET req == th[t].req IN
    /\ req.public_key[1] # "private"
    /\ \A p \in Paths : exists(privFile[p]) => req.public_key # privFile[p].content
    /\ CASE req.endpoint = "/entity/create" ->
               /\ req.public_key[1] = "public"
               /\ req.signer = 0 /\ req.signed = <<>>
          [] req.endpoint = "/auth/session" ->
               /\ req.public_key = NoReq.public_key
               /\ req.signer = th[t].key
               /\ Len(th[t].got) = 1
               /\ req.signed = Hex(th[t].got[1].resp.nonce)
          [] OTHER ->
               /\ req.public_key = NoReq.public_key
               /\ req.signer = 0 /\ req.signed = <<>>

\* C28: no request sent by create_entity, authenticate, refresh_session or
\* revoke_session carries the private key: the only key-derived data ever
\* transmitted are the public key PEM (on create) and the signature over the
\* decrypted challenge (on authenticate).
C28_RequestsCarryNoPrivateKey == RequestsCarryNoPrivateKey

\* A registration for an entity whose key pair was already on disk is in
\* flight, with the text of the public key file.
C28_Witness ==
  \E t \in Callers :
    /\ th[t].wait /\ th[t].req.endpoint = "/entity/create"
    /\ genCalls = 0
    /\ th[t].req.public_key = pubFile[key_path(th[t].ent)].content
    /\ exists(privFile[key_path(th[t].ent)])

====
